---- MODULE Spec2Model ----
(***************************************************************************)
(* Progress tracking store of the podcast pipeline (scripts/db/progress.py)*)
(* The episodes table and the processing_locks table of ProgressDB, the   *)
(* operations on them, and the worker processes that call them; and the    *)
(* monitor (scripts/monitor) that computes the progress of the feeds and   *)
(* launches the workers.                                                   *)
(***************************************************************************)
EXTENDS Integers, Sequences, FiniteSets, TLC

VARIABLES
    episodes,   \* the episodes table: row i of the sequence has id i
    locks,      \* the processing_locks table: a set of rows
    clock,      \* the wall clock, in ticks of TickMinutes minutes
    call,       \* per worker: the acquire_lock call it has begun, if any
    alive,      \* per worker: FALSE once the process was killed
    last,       \* the operation that returned last, with its return value
    race,       \* per episode id: callers of acquire_lock pending or returned
                \* since a moment at which the id had no lock row
    won,        \* per episode id: the racers whose call returned True
    lost,       \* per episode id: the racers whose call returned False
    holder,     \* per episode id: the worker whose acquire_lock returned True last
    monitor,    \* the monitor (scripts/monitor): its observations, its
                \* tracking state and the worker processes it launched
    transcription,  \* the .transcribing lock file of one audio file and
                \* the transcription workers that take it
    directory,  \* transcribe_directory: the audio files of a podcast, their
                \* lock files and the workers that go through them
    wrapper,    \* one call of a function wrapped by retry()
    shutdown    \* a GracefulShutdown object and the worker processes

vars == <<episodes, locks, clock, call, alive, last, race, won, lost, holder, monitor, transcription, directory, wrapper, shutdown>>

----------------------------------------------------------------------------
(* Bounds and input sets *)

MaxClock == 1

Podcasts == {"PodX"}
Titles == {"Ep1", "Ep2"}
Workers == {"worker-1", "worker-2", "worker-3"}
EpisodeIds == 1..Cardinality(Podcasts \X Titles)

NULL == "NULL"
NullTime == -1
NoWorker == "nobody"
DefaultMaxAge == 60
\* One tick of the clock is longer than the default stale-lock age.
TickMinutes == DefaultMaxAge + DefaultMaxAge \div 2

----------------------------------------------------------------------------
(* EpisodeStatus *)

PENDING == "pending"
DOWNLOADING == "downloading"
DOWNLOADED == "downloaded"
TRANSCRIBING == "transcribing"
TRANSCRIBED == "transcribed"
ENRICHING == "enriching"
ENRICHED == "enriched"
FAILED == "failed"
SKIPPED == "skipped"

EpisodeStatus ==
    {PENDING, DOWNLOADING, DOWNLOADED, TRANSCRIBING, TRANSCRIBED,
     ENRICHING, ENRICHED, FAILED, SKIPPED}

\* pending -> downloading -> downloaded -> transcribing -> transcribed ->
\* enriching -> enriched
Pipeline ==
    <<PENDING, DOWNLOADING, DOWNLOADED, TRANSCRIBING, TRANSCRIBED, ENRICHING, ENRICHED>>

Stage(status) == CHOOSE i \in 1..Len(Pipeline) : Pipeline[i] = status

InProgress == {DOWNLOADING, TRANSCRIBING, ENRICHING}

\* The statuses a pipeline worker still acts on
ActiveStatuses ==
    {PENDING, DOWNLOADING, DOWNLOADED, TRANSCRIBING, TRANSCRIBED, ENRICHING}

\* The transition graph: the next pipeline step, or failed/skipped from an
\* active status
Allowed(from, to) ==
    \/ /\ from \in ActiveStatuses
       /\ to \in {FAILED, SKIPPED}
    \/ /\ from \in ActiveStatuses
       /\ to \notin {FAILED, SKIPPED}
       /\ Stage(to) = Stage(from) + 1

\* The demotion of crash recovery: an in-progress status goes back to the
\* stable status before it, every other status stays.
Demoted(status) ==
    IF status \in InProgress THEN Pipeline[Stage(status) - 1] ELSE status

----------------------------------------------------------------------------
(* The episodes table *)

\* A row as INSERT creates it: the columns given, the defaults for the rest.
NewRow(podcast_name, episode_title, episode_url, guid, now) ==
    [podcast_name |-> podcast_name,
     episode_title |-> episode_title,
     episode_url |-> episode_url,
     guid |-> guid,
     status |-> PENDING,
     error_message |-> NULL,
     audio_path |-> NULL,
     transcript_path |-> NULL,
     enrichment_path |-> NULL,
     download_started_at |-> NullTime,
     download_completed_at |-> NullTime,
     transcribe_started_at |-> NullTime,
     transcribe_completed_at |-> NullTime,
     enrich_started_at |-> NullTime,
     enrich_completed_at |-> NullTime,
     created_at |-> now,
     updated_at |-> now]

\* COALESCE with its arguments exchanged
CoalesceSwapped(a, b) == IF b # NULL THEN b ELSE a

\* SQL COALESCE(a, b)
Coalesce(a, b) == IF a # NULL THEN a ELSE b

\* The ids of the rows with this (podcast_name, episode_title)
FindEpisode(rows, podcast_name, episode_title) ==
    {i \in 1..Len(rows) :
        /\ rows[i].podcast_name = podcast_name
        /\ rows[i].episode_title = episode_title}

\* INSERT OR REPLACE: the conflicting row is written anew.
ConflictReplace(row, episode_url, guid, now) ==
    NewRow(row.podcast_name, row.episode_title, episode_url, guid, now)

\* ON CONFLICT(podcast_name, episode_title) DO UPDATE SET ...
ConflictUpdate(row, episode_url, guid, now) ==
    [row EXCEPT !.episode_url = Coalesce(episode_url, row.episode_url),
                !.guid = Coalesce(guid, row.guid),
                !.updated_at = now]

\* INSERT ... ON CONFLICT ... RETURNING id: the table afterwards and the id
Upsert(rows, podcast_name, episode_title, episode_url, guid, now) ==
    LET found == FindEpisode(rows, podcast_name, episode_title) IN
    IF found # {}
    THEN LET i == CHOOSE j \in found : TRUE IN
         [rows |-> [rows EXCEPT ![i] = ConflictUpdate(rows[i], episode_url, guid, now)],
          id |-> i]
    ELSE [rows |-> Append(rows, NewRow(podcast_name, episode_title, episode_url, guid, now)),
          id |-> Len(rows) + 1]

\* Python truthiness of an Optional[str]: None and "" are falsy
Truthy(x) == x # NULL /\ x # ""

\* timestamp_map of update_status: the stage timestamp a status sets
TimestampStatuses ==
    {DOWNLOADING, DOWNLOADED, TRANSCRIBING, TRANSCRIBED, ENRICHING, ENRICHED}

TimestampField(status) ==
    CASE status = DOWNLOADING -> "download_started_at"
      [] status = DOWNLOADED -> "download_completed_at"
      [] status = TRANSCRIBING -> "transcribe_started_at"
      [] status = TRANSCRIBED -> "transcribe_completed_at"
      [] status = ENRICHING -> "enrich_started_at"
      [] status = ENRICHED -> "enrich_completed_at"

\* The keyword arguments update_status writes; any other is ignored.
PathKeys == {"audio_path", "transcript_path", "enrichment_path"}

\* The status written by a statement of its own, committed before the
\* timestamp and the path are written
SetClauseStatusFirst(row, status, error_message, kwargs, now) ==
    [row EXCEPT !.status = status, !.updated_at = now]

\* The SET list update_status builds, applied to one row. kwargs is a
\* function from keyword names to values.
SetClause(row, status, error_message, kwargs, now) ==
    LET r1 == [row EXCEPT !.status = status, !.updated_at = now]
        r2 == IF Truthy(error_message)
              THEN [r1 EXCEPT !.error_message = error_message]
              ELSE r1
        r3 == IF status \in TimestampStatuses
              THEN [r2 EXCEPT ![TimestampField(status)] = now]
              ELSE r2
        r4 == IF "audio_path" \in PathKeys \cap DOMAIN kwargs
              THEN [r3 EXCEPT !.audio_path = kwargs["audio_path"]]
              ELSE r3
        r5 == IF "transcript_path" \in PathKeys \cap DOMAIN kwargs
              THEN [r4 EXCEPT !.transcript_path = kwargs["transcript_path"]]
              ELSE r4
    IN  IF "enrichment_path" \in PathKeys \cap DOMAIN kwargs
        THEN [r5 EXCEPT !.enrichment_path = kwargs["enrichment_path"]]
        ELSE r5

\* An update_status that checks the transition and raises otherwise
UpdateWhereIdValidated(rows, episode_id, status, error_message, kwargs, now) ==
    IF episode_id \in 1..Len(rows) /\ Allowed(rows[episode_id].status, status)
    THEN [rows EXCEPT ![episode_id] =
            SetClause(rows[episode_id], status, error_message, kwargs, now)]
    ELSE rows

\* UPDATE episodes SET ... WHERE id = ?  (no row matches an unknown id)
UpdateWhereId(rows, episode_id, status, error_message, kwargs, now) ==
    IF episode_id \in 1..Len(rows)
    THEN [rows EXCEPT ![episode_id] =
            SetClause(rows[episode_id], status, error_message, kwargs, now)]
    ELSE rows

\* UPDATE episodes SET status = to, updated_at = CURRENT_TIMESTAMP
\* WHERE status = from: the table afterwards
SetStatusWhere(rows, from, to, now) ==
    [i \in 1..Len(rows) |->
        IF rows[i].status = from
        THEN [rows[i] EXCEPT !.status = to, !.updated_at = now]
        ELSE rows[i]]

\* cursor.rowcount of that UPDATE
RowCount(rows, from) == Cardinality({i \in 1..Len(rows) : rows[i].status = from})

\* Three UPDATE ... WHERE status = from statements run in order, each a
\* <<from, to>> pair: the table afterwards and the sum of the rowcounts
RunUpdates(rows, now, u1, u2, u3) ==
    LET a == SetStatusWhere(rows, u1[1], u1[2], now)
        b == SetStatusWhere(a, u2[1], u2[2], now)
        c == SetStatusWhere(b, u3[1], u3[2], now)
    IN  [rows |-> c,
         total |-> RowCount(rows, u1[1]) + RowCount(a, u2[1]) + RowCount(b, u3[1])]

\* Each in-progress status is set to the in-progress status before it, the
\* later stage first: an enriching item falls through to pending.
ResetRowsChained(rows, now) ==
    RunUpdates(rows, now, <<ENRICHING, TRANSCRIBING>>, <<TRANSCRIBING, DOWNLOADING>>,
               <<DOWNLOADING, PENDING>>)

\* Every stuck item restarts the pipeline from pending.
ResetRowsToPending(rows, now) ==
    RunUpdates(rows, now, <<DOWNLOADING, PENDING>>, <<TRANSCRIBING, PENDING>>,
               <<ENRICHING, PENDING>>)

\* The first UPDATE names the completed status instead of the in-progress one.
ResetRowsWrongStatus(rows, now) ==
    RunUpdates(rows, now, <<DOWNLOADED, PENDING>>, <<TRANSCRIBING, DOWNLOADED>>,
               <<ENRICHING, TRANSCRIBED>>)

\* The UPDATE statements of reset_stuck_episodes: downloading to pending,
\* transcribing to downloaded, enriching to transcribed
ResetRows(rows, now) ==
    RunUpdates(rows, now, <<DOWNLOADING, PENDING>>, <<TRANSCRIBING, DOWNLOADED>>,
               <<ENRICHING, TRANSCRIBED>>)

----------------------------------------------------------------------------
(* The processing_locks table *)

LockRows(rows, episode_id) == {l \in rows : l.episode_id = episode_id}

\* A table without the primary key: no insert conflicts.
NoPrimaryKey(rows, episode_id) == FALSE

\* episode_id INTEGER PRIMARY KEY
PrimaryKeyConflict(rows, episode_id) == LockRows(rows, episode_id) # {}

\* FOREIGN KEY (episode_id) REFERENCES episodes(id), PRAGMA foreign_keys=ON
ForeignKeyMissing(eps, episode_id) == episode_id \notin 1..Len(eps)

\* INSERT OR REPLACE: a second caller takes the row over.
InsertOrReplaceLock(rows, eps, episode_id, worker_id, now) ==
    IF ForeignKeyMissing(eps, episode_id)
    THEN [ok |-> FALSE, rows |-> rows]
    ELSE [ok |-> TRUE,
          rows |-> (rows \ LockRows(rows, episode_id))
                   \cup {[episode_id |-> episode_id,
                          worker_id |-> worker_id,
                          locked_at |-> now]}]

\* The INSERT with foreign_keys left off: a row for an unknown episode id
InsertLockWithoutForeignKey(rows, eps, episode_id, worker_id, now) ==
    IF PrimaryKeyConflict(rows, episode_id)
    THEN [ok |-> FALSE, rows |-> rows]
    ELSE [ok |-> TRUE,
          rows |-> rows \cup {[episode_id |-> episode_id,
                               worker_id |-> worker_id,
                               locked_at |-> now]}]

\* INSERT INTO processing_locks: sqlite3.IntegrityError (ok = FALSE) or the
\* table with the new row
InsertLock(rows, eps, episode_id, worker_id, now) ==
    IF PrimaryKeyConflict(rows, episode_id) \/ ForeignKeyMissing(eps, episode_id)
    THEN [ok |-> FALSE, rows |-> rows]
    ELSE [ok |-> TRUE,
          rows |-> rows \cup {[episode_id |-> episode_id,
                               worker_id |-> worker_id,
                               locked_at |-> now]}]

\* DELETE without the worker_id condition: anybody releases.
ReleaseAnyHolder(rows, episode_id, worker_id) == LockRows(rows, episode_id)

\* DELETE FROM processing_locks WHERE episode_id = ? AND worker_id = ?
ReleaseRows(rows, episode_id, worker_id) ==
    {l \in rows : l.episode_id = episode_id /\ l.worker_id = worker_id}

\* The comparison turned round: the rows younger than max_age_minutes
StaleRowsInverted(rows, now, max_age_minutes) ==
    {l \in rows : l.locked_at * TickMinutes > now * TickMinutes - max_age_minutes}

\* A sweep that also takes the rows exactly max_age_minutes old
StaleRowsInclusive(rows, now, max_age_minutes) ==
    {l \in rows : l.locked_at * TickMinutes <= now * TickMinutes - max_age_minutes}

\* datetime(locked_at) < datetime('now', '-max_age_minutes minutes')
StaleRows(rows, now, max_age_minutes) ==
    {l \in rows : l.locked_at * TickMinutes < now * TickMinutes - max_age_minutes}

----------------------------------------------------------------------------
(* Initial state: a new database, no worker has called anything *)

----------------------------------------------------------------------------
(* The monitor: feed progress (scripts/monitor/feed_analyzer.py)           *)

\* None of Python
None == "None"

\* The podcast directories under episodes/, in the order of
\* sorted(episodes_dir.iterdir())
FeedOrder == <<"Feed A", "Feed B", "TRUE ANON TRUTH FEED">>
FeedNames == {FeedOrder[i] : i \in DOMAIN FeedOrder}
PatreonFeed == "TRUE ANON TRUTH FEED"

\* get_book_scores(): the score of each podcast; a podcast without one gets 3
book_scores == [n \in {"Feed A"} |-> 5]
DefaultBookScore == 3

\* dict.get(key, default)
Get(d, key, default) == IF key \in DOMAIN d THEN d[key] ELSE default

Min(a, b) == IF a <= b THEN a ELSE b
Max(a, b) == IF a >= b THEN a ELSE b

\* Comparison of the tuples that are sort keys
LexLess(a, b) ==
    \E i \in DOMAIN a :
        /\ a[i] < b[i]
        /\ \A j \in 1..(i - 1) : a[j] = b[j]

\* list.sort(key=...): ascending in the key, equal keys stay in their order
Sorted(seq, Key(_)) ==
    LET n == Len(seq)
        perms == {q \in [1..n -> 1..n] : \A i, j \in 1..n : i # j => q[i] # q[j]}
        q == CHOOSE r \in perms :
                \A i, j \in 1..n :
                    i < j => \/ LexLess(Key(seq[r[i]]), Key(seq[r[j]]))
                             \/ /\ Key(seq[r[i]]) = Key(seq[r[j]])
                                /\ r[i] < r[j]
    IN  [i \in 1..n |-> seq[q[i]]]

\* The dictionary get_feed_progress appends for one podcast directory (the
\* percentages, which only the display reads, are left out).
\* enrich_remaining is computed from the count of .txt files before that
\* count is capped at downloaded.
FeedEntry(name, total, downloaded, txt_files, enriched_files) ==
    LET transcribed == Min(txt_files, downloaded) IN
    [name |-> name,
     total |-> total,
     downloaded |-> downloaded,
     transcribed |-> transcribed,
     enriched |-> enriched_files,
     remaining |-> total - downloaded,
     trans_remaining |-> downloaded - transcribed,
     enrich_remaining |-> txt_files - enriched_files,
     book_score |-> Get(book_scores, name, DefaultBookScore),
     is_dl_complete |-> downloaded = total,
     is_tr_complete |-> transcribed = downloaded /\ downloaded > 0,
     is_en_complete |-> enriched_files = transcribed /\ transcribed > 0]

\* The sort key of the feed list
PriorityKey(f) == <<f.remaining, -f.book_score>>

\* The entries of the directories with at least one valid audio file, in
\* directory order.  files gives per directory the number of valid audio
\* files, of .txt files and of _enriched.json files.
RECURSIVE FeedEntries(_, _, _)
FeedEntries(rss_totals, files, i) ==
    IF i > Len(FeedOrder) THEN <<>>
    ELSE LET name == FeedOrder[i]
             downloaded == files[name].downloaded
             rest == FeedEntries(rss_totals, files, i + 1)
         IN  IF downloaded = 0 THEN rest
             ELSE <<FeedEntry(name, Get(rss_totals, name, downloaded), downloaded,
                              files[name].txt, files[name].enriched)>> \o rest

get_feed_progress(rss_totals, files) ==
    Sorted(FeedEntries(rss_totals, files, 1), PriorityKey)

----------------------------------------------------------------------------
(* The monitor: configuration (scripts/monitor/config.py)                  *)

TARGET_DOWNLOADERS == 30
TARGET_TRANSCRIBERS == 6
TARGET_ENRICHERS == 20
REFRESH_INTERVAL == 10
STALL_THRESHOLD == 5
MIN_EPISODES_FOR_MULTIPLE_WORKERS == 50
MANUAL_FAILOVER_THRESHOLD == 3
PATREON_BASE_DELAY == 60
PATREON_MAX_DELAY == 1800

----------------------------------------------------------------------------
(* The monitor: worker processes (scripts/monitor/workers.py)              *)

\* The command lines of the processes the monitor starts
Downloader_py == "podcast_downloader.py"
PatreonDownloader_py == "patreon_downloader.py"
Transcriber_py == "podcast_transcriber.py"
Enrichment_main == "-m scripts.enrichment.main"
ManualAssistant_py == "manual_download_assistant.py"
Commands ==
    {Downloader_py, PatreonDownloader_py, Transcriber_py, Enrichment_main,
     ManualAssistant_py}

\* The kinds of running processes: the command and the feed it serves.
\* procs gives the number of running processes of each kind.
ProcKinds == [cmd : Commands, feed : FeedNames]
NoProcs == [k \in ProcKinds |-> 0]

Kind(cmd, feed) == [cmd |-> cmd, feed |-> feed]

RECURSIVE SumOver(_, _)
SumOver(f, S) ==
    IF S = {} THEN 0
    ELSE LET x == CHOOSE y \in S : TRUE IN f[x] + SumOver(f, S \ {x})

\* The lines of ps aux that contain the name
Running(procs, names) == {k \in ProcKinds : k.cmd \in names /\ procs[k] > 0}

\* get_worker_counts(): the lines of ps aux are matched against
\* 'podcast_downloader.py', 'patreon_downloader.py',
\* 'patreon_browser_downloader.py', 'podcast_transcriber.py' and
\* 'enrich_transcript.py'; no process of Commands has the last name in its
\* command line.
get_worker_counts(procs) ==
    LET dl == Running(procs, {Downloader_py, PatreonDownloader_py})
        tr == Running(procs, {Transcriber_py})
        en == Running(procs, {"enrich_transcript.py"})
    IN  [dl_workers |-> SumOver(procs, dl),
         tr_workers |-> SumOver(procs, tr),
         en_workers |-> SumOver(procs, en),
         dl_feeds |-> {k.feed : k \in dl},
         tr_feeds |-> {k.feed : k \in tr},
         en_feeds |-> {k.feed : k \in en}]

\* launch_worker: the command started for a feed and a worker type (the
\* OPML file names the RSS url of the Patreon feed)
WorkerCommand(name, worker_type) ==
    IF worker_type = "download"
    THEN IF name = PatreonFeed THEN PatreonDownloader_py ELSE Downloader_py
    ELSE Transcriber_py

----------------------------------------------------------------------------
(* The monitor: state of main() (scripts/monitor/main.py)                  *)

\* last_attempt is None: no worker was launched for the feed yet
NoAttempt == -1

BackoffInit ==
    [failure_count |-> 0,
     last_attempt |-> NoAttempt,
     base_delay |-> PATREON_BASE_DELAY,
     max_delay |-> PATREON_MAX_DELAY,
     manual_mode |-> FALSE,
     manual_pid |-> None]

\* The monitor before its first tick
MonitorInit ==
    [op |-> "init",
     rss_totals |-> [n \in {} |-> 0],
     files |-> [n \in FeedNames |-> [downloaded |-> 0, txt |-> 0, enriched |-> 0]],
     feeds |-> <<>>,
     procs |-> NoProcs,
     log_failed |-> FALSE,
     now |-> PATREON_MAX_DELAY,
     active_dl_feeds |-> {},
     active_tr_feeds_count |-> [n \in {} |-> 0],
     active_en_feeds |-> {},
     progress_history |-> [n \in {} |-> <<>>],
     backoff_state |-> BackoffInit,
     stalled_feeds |-> {},
     seen |-> get_worker_counts(NoProcs),
     launched |-> <<>>,
     branch |-> {}]

\* A process of the kind has been started.
Started(m, cmd, feed, stage) ==
    [m EXCEPT !.procs[Kind(cmd, feed)] = @ + 1,
              !.launched = Append(@, [stage |-> stage, feed |-> feed])]

\* progress_history after the downloaded count of every feed was appended
\* and the history cut to the last STALL_THRESHOLD samples
UpdateHistory(history, feeds) ==
    LET names == {feeds[i].name : i \in DOMAIN feeds}
        entry(n) == CHOOSE f \in {feeds[i] : i \in DOMAIN feeds} : f.name = n
        appended(n) == Append(Get(history, n, <<>>), entry(n).downloaded)
    IN  [n \in DOMAIN history \cup names |->
            IF n \in names
            THEN IF Len(appended(n)) > STALL_THRESHOLD
                 THEN Tail(appended(n))
                 ELSE appended(n)
            ELSE history[n]]

\* The feeds flagged as stalled, without the test of the percentage
StalledFeedsAnyPercentage(history, feeds) ==
    {feeds[i].name : i \in
        {j \in DOMAIN feeds :
            LET f == feeds[j]
                h == history[f.name]
            IN  /\ Len(h) >= STALL_THRESHOLD
                /\ Cardinality({h[x] : x \in DOMAIN h}) = 1
                /\ ~f.is_dl_complete
                /\ f.remaining > 0
                /\ f.remaining > 5
                /\ f.downloaded < f.total}}

\* The feeds flagged as stalled in this tick
StalledFeeds(history, feeds) ==
    {feeds[i].name : i \in
        {j \in DOMAIN feeds :
            LET f == feeds[j]
                h == history[f.name]
            IN  /\ Len(h) >= STALL_THRESHOLD
                /\ Cardinality({h[x] : x \in DOMAIN h}) = 1
                /\ ~f.is_dl_complete
                /\ f.remaining > 0
                /\ f.remaining > 5
                /\ f.total > 0
                /\ f.downloaded * 100 < 99 * f.total
                /\ f.downloaded < f.total}}

\* The delay of the backoff after failure_count failures
BackoffDelay(state) ==
    Min(state.base_delay * 2 ^ (state.failure_count - 1), state.max_delay)

\* The branch of the pass is recorded
Took(m, name) == [m EXCEPT !.branch = @ \cup {name}]

\* main, lines 152-156, with manual mode kept
ResetBackoffKeepsManual(state) == [state EXCEPT !.failure_count = 0]

\* main, lines 152-156, with the count of failures kept
ResetBackoffKeepsCount(state) == [state EXCEPT !.manual_mode = FALSE]

\* main, lines 152-156: the download succeeded, the backoff is reset
ResetBackoff(state) == [state EXCEPT !.failure_count = 0, !.manual_mode = FALSE]

\* main, line 158, without the discard: the feed stays tracked
DiscardEvaluatedNever(m) == m

\* main, line 158: active_dl_feeds.discard(feed_name) after the evaluation
DiscardEvaluated(m) == [m EXCEPT !.active_dl_feeds = @ \ {PatreonFeed}]

\* main, lines 123-158: the exit of the Patreon downloader is evaluated.
\* failed is the result of check_feed_failure, popen_fails the commands
\* whose subprocess.Popen raises in this tick.
UpdateBackoff(m, dl_feeds, failed, popen_fails) ==
    LET state == m.backoff_state IN
    IF /\ state.last_attempt # NoAttempt
       /\ PatreonFeed \in m.active_dl_feeds
       /\ PatreonFeed \notin dl_feeds
    THEN LET counted == [state EXCEPT !.failure_count = @ + 1]
             to_manual == /\ counted.failure_count >= MANUAL_FAILOVER_THRESHOLD
                          /\ ~counted.manual_mode
             mf == Took(m, "failed")
             ms == IF state.failure_count > 0
                   THEN Took(Took(m, "succeeded"), "reset")
                   ELSE Took(m, "succeeded")
             m1 == IF ~failed
                   THEN [ms EXCEPT !.backoff_state = ResetBackoff(state)]
                   ELSE IF ~to_manual
                   THEN [mf EXCEPT !.backoff_state = counted]
                   ELSE IF ManualAssistant_py \in popen_fails
                   THEN [Took(mf, "to_manual") EXCEPT !.backoff_state =
                            [counted EXCEPT !.manual_mode = TRUE]]
                   ELSE [Started(Took(mf, "to_manual"), ManualAssistant_py,
                                 PatreonFeed, "manual")
                            EXCEPT !.backoff_state =
                                [counted EXCEPT !.manual_mode = TRUE,
                                                !.manual_pid = "pid"]]
         IN  DiscardEvaluated(m1)
    ELSE m

\* os.kill(manual_pid, 0) succeeds: the manual download assistant runs.
ManualAlive(m) == m.procs[Kind(ManualAssistant_py, PatreonFeed)] > 0

\* main, lines 165-200: one feed of incomplete_feeds[:needed]
DownloadStep(m, dl_feeds, feed, popen_fails) ==
    LET name == feed.name
        state == m.backoff_state
        tracked == name \in m.active_dl_feeds \/ name \in dl_feeds
        waits_manual == state.manual_mode /\ state.manual_pid # None /\ ManualAlive(m)
        leaves_manual == state.manual_mode /\ state.manual_pid # None /\ ~ManualAlive(m)
        state1 == IF leaves_manual
                  THEN [state EXCEPT !.manual_mode = FALSE, !.manual_pid = None,
                                     !.failure_count = 0]
                  ELSE state
        cools == /\ state1.last_attempt # NoAttempt
                 /\ state1.failure_count > 0
                 /\ m.now - state1.last_attempt < BackoffDelay(state1)
        cmd == WorkerCommand(name, "download")
        m1 == [(IF leaves_manual THEN Took(m, "manual_exited") ELSE m)
                  EXCEPT !.backoff_state = state1]
        m2 == IF name = PatreonFeed THEN [m1 EXCEPT !.log_failed = FALSE] ELSE m1
        m3 == [Started(m2, cmd, name, "download")
                  EXCEPT !.active_dl_feeds = @ \cup {name}]
    IN  IF name = PatreonFeed /\ tracked THEN m
        ELSE IF name = PatreonFeed /\ waits_manual THEN Took(m, "manual_alive")
        ELSE IF name = PatreonFeed /\ cools THEN Took(m1, "cooling")
        ELSE IF tracked THEN m
        ELSE IF cmd \in popen_fails THEN IF name = PatreonFeed THEN m2 ELSE m
        ELSE IF name = PatreonFeed
             THEN [m3 EXCEPT !.backoff_state.last_attempt = m.now]
             ELSE m3

RECURSIVE DownloadLoop(_, _, _, _, _)
DownloadLoop(m, dl_feeds, list, i, popen_fails) ==
    IF i > Len(list) THEN m
    ELSE DownloadLoop(DownloadStep(m, dl_feeds, list[i], popen_fails),
                      dl_feeds, list, i + 1, popen_fails)

\* [f for f in seq if Test(f)]
Filter(seq, Test(_)) == SelectSeq(seq, Test)

\* seq[:n]
Prefix(seq, n) == SubSeq(seq, 1, Min(n, Len(seq)))

\* main, lines 160-200: launch download workers if needed
LaunchDownloaders(m, seen, feeds, popen_fails) ==
    IF seen.dl_workers < TARGET_DOWNLOADERS
    THEN LET needed == TARGET_DOWNLOADERS - seen.dl_workers
             NotComplete(f) == ~f.is_dl_complete
             incomplete_feeds == Filter(feeds, NotComplete)
         IN  DownloadLoop(m, seen.dl_feeds, Prefix(incomplete_feeds, needed), 1,
                          popen_fails)
    ELSE m

\* The number of transcription workers a feed may have, with the quotient
\* rounded up
MaxWorkersRoundedUp(trans_remaining, slots_available) ==
    IF trans_remaining >= MIN_EPISODES_FOR_MULTIPLE_WORKERS
    THEN Min(slots_available, Max(1, (trans_remaining + 49) \div 50))
    ELSE 1

\* main, lines 214-217: the number of transcription workers a feed may have
MaxWorkersForFeed(trans_remaining, slots_available) ==
    IF trans_remaining >= MIN_EPISODES_FOR_MULTIPLE_WORKERS
    THEN Min(slots_available, Max(1, trans_remaining \div 50))
    ELSE 1

\* main, lines 227-235: the inner loop that launches n workers for a feed
RECURSIVE TranscribeRange(_, _, _, _)
TranscribeRange(r, name, n, popen_fails) ==
    IF n = 0 \/ r.slots_available <= 0 THEN r
    ELSE IF Transcriber_py \in popen_fails
    THEN TranscribeRange(r, name, n - 1, popen_fails)
    ELSE TranscribeRange(
            [m |-> [Started(r.m, Transcriber_py, name, "transcribe")
                       EXCEPT !.active_tr_feeds_count =
                           [x \in DOMAIN @ \cup {name} |-> Get(@, x, 0) +
                               IF x = name THEN 1 ELSE 0]],
             slots_available |-> r.slots_available - 1],
            name, n - 1, popen_fails)

\* main, lines 206-235: the loop over transcribe_feeds; r holds the state
\* and the slots still available
RECURSIVE TranscribeLoop(_, _, _, _)
TranscribeLoop(r, list, i, popen_fails) ==
    IF i > Len(list) \/ r.slots_available <= 0 THEN r
    ELSE LET feed == list[i]
             current_workers == Get(r.m.active_tr_feeds_count, feed.name, 0)
             max_workers_for_feed ==
                 MaxWorkersForFeed(feed.trans_remaining, r.slots_available)
             workers_to_launch == max_workers_for_feed - current_workers
         IN  TranscribeLoop(
                 IF workers_to_launch > 0
                 THEN TranscribeRange(r, feed.name, workers_to_launch, popen_fails)
                 ELSE r,
                 list, i + 1, popen_fails)

\* The transcription candidates kept in the order of the feed list
TranscribeKeyAsListed(f) == <<f.remaining, -f.book_score>>

\* The sort keys of the transcription and the enrichment candidates
TranscribeKey(f) ==
    <<-f.trans_remaining, IF f.is_dl_complete THEN 0 ELSE 1, -f.book_score>>
EnrichKey(f) == <<-f.enrich_remaining, -f.book_score>>

\* main, lines 202-237: launch transcription workers if needed
LaunchTranscribers(m, seen, feeds, popen_fails) ==
    IF seen.tr_workers < TARGET_TRANSCRIBERS
    THEN LET NeedsTranscription(f) == f.trans_remaining > 0
             transcribe_feeds == Sorted(Filter(feeds, NeedsTranscription), TranscribeKey)
         IN  TranscribeLoop([m |-> m,
                             slots_available |-> TARGET_TRANSCRIBERS - seen.tr_workers],
                            transcribe_feeds, 1, popen_fails).m
    ELSE m

\* main, lines 245-277: the loop over enrich_feeds.  A feed with
\* enrich_remaining > 0 has a .txt file without its _enriched.json file,
\* and one enricher is started for the first such file.
RECURSIVE EnrichLoop(_, _, _, _, _)
EnrichLoop(r, en_feeds, list, i, popen_fails) ==
    IF i > Len(list) \/ r.slots_available <= 0 THEN r
    ELSE LET feed_name == list[i].name IN
         EnrichLoop(
             IF feed_name \in r.m.active_en_feeds \/ feed_name \in en_feeds THEN r
             ELSE IF Enrichment_main \in popen_fails THEN r
             ELSE [m |-> [Started(r.m, Enrichment_main, feed_name, "enrich")
                             EXCEPT !.active_en_feeds = @ \cup {feed_name}],
                   slots_available |-> r.slots_available - 1],
             en_feeds, list, i + 1, popen_fails)

\* main, lines 239-277: launch enrichment workers if needed
LaunchEnrichers(m, seen, feeds, popen_fails) ==
    IF seen.en_workers < TARGET_ENRICHERS
    THEN LET NeedsEnrichment(f) == f.enrich_remaining > 0
             enrich_feeds == Sorted(Filter(feeds, NeedsEnrichment), EnrichKey)
         IN  EnrichLoop([m |-> m,
                         slots_available |-> TARGET_ENRICHERS - seen.en_workers],
                        seen.en_feeds, enrich_feeds, 1, popen_fails).m
    ELSE m

\* A cleanup that keeps a completed feed tracked while its worker runs
RemoveCompletedWhenExited(m, seen, feeds) ==
    LET Listed(Test(_)) == {feeds[i].name : i \in {j \in DOMAIN feeds : Test(feeds[j])}}
        DlComplete(f) == f.is_dl_complete /\ f.name \notin seen.dl_feeds
        TrComplete(f) == f.is_tr_complete /\ f.name \notin seen.tr_feeds
        EnComplete(f) == f.is_en_complete /\ f.name \notin seen.en_feeds
        InList(f) == TRUE
    IN  [m EXCEPT
            !.active_dl_feeds = @ \ Listed(DlComplete),
            !.active_tr_feeds_count = [x \in DOMAIN @ \ Listed(TrComplete) |-> @[x]],
            !.active_en_feeds = (@ \ Listed(EnComplete)) \ (Listed(InList) \ seen.en_feeds)]

\* main, lines 279-288: remove completed feeds from active tracking
RemoveCompleted(m, seen, feeds) ==
    LET Listed(Test(_)) == {feeds[i].name : i \in {j \in DOMAIN feeds : Test(feeds[j])}}
        DlComplete(f) == f.is_dl_complete
        TrComplete(f) == f.is_tr_complete
        EnComplete(f) == f.is_en_complete
        InList(f) == TRUE
    IN  [m EXCEPT
            !.active_dl_feeds = @ \ Listed(DlComplete),
            !.active_tr_feeds_count = [x \in DOMAIN @ \ Listed(TrComplete) |-> @[x]],
            !.active_en_feeds = (@ \ Listed(EnComplete)) \ (Listed(InList) \ seen.en_feeds)]

\* One pass of the loop of main(): discovery, feed progress, backoff,
\* launches, tracking cleanup, sleep.  elapsed is the time the pass and its
\* sleep take.
MainLoop(m, popen_fails, elapsed) ==
    LET seen == get_worker_counts(m.procs)
        feeds == get_feed_progress(m.rss_totals, m.files)
        history == UpdateHistory(m.progress_history, feeds)
        m0 == [m EXCEPT !.op = "tick", !.seen = seen, !.feeds = feeds,
                        !.launched = <<>>, !.branch = {},
                        !.progress_history = history,
                        !.stalled_feeds = StalledFeeds(history, feeds)]
        m1 == UpdateBackoff(m0, seen.dl_feeds, m.log_failed, popen_fails)
        m2 == LaunchDownloaders(m1, seen, feeds, popen_fails)
        m3 == LaunchTranscribers(m2, seen, feeds, popen_fails)
        m4 == LaunchEnrichers(m3, seen, feeds, popen_fails)
        m5 == RemoveCompleted(m4, seen, feeds)
    IN  [m5 EXCEPT !.now = @ + elapsed]

----------------------------------------------------------------------------
(* The loop before the refactoring (scripts/monitor_progress.py, main).    *)
(* Its text is that of scripts/monitor/main.py but for the printing, the   *)
(* command of the enrichment worker and the place of one continue in the   *)
(* download loop.                                                          *)

\* monitor_progress.main, lines 607-656: one feed of incomplete_feeds[:needed].
\* The continue of lines 617-629 ends the iteration whenever the feed is in
\* manual mode: with the assistant running, gone, or never started.
OriginalDownloadStep(m, dl_feeds, feed, popen_fails) ==
    LET name == feed.name
        state == m.backoff_state
        tracked == name \in m.active_dl_feeds \/ name \in dl_feeds
        leaves_manual == state.manual_mode /\ state.manual_pid # None /\ ~ManualAlive(m)
        cools == /\ state.last_attempt # NoAttempt
                 /\ state.failure_count > 0
                 /\ m.now - state.last_attempt < BackoffDelay(state)
        cmd == WorkerCommand(name, "download")
        m2 == IF name = PatreonFeed THEN [m EXCEPT !.log_failed = FALSE] ELSE m
        m3 == [Started(m2, cmd, name, "download")
                  EXCEPT !.active_dl_feeds = @ \cup {name}]
    IN  IF name = PatreonFeed /\ tracked THEN m
        ELSE IF name = PatreonFeed /\ state.manual_mode
             THEN IF state.manual_pid = None THEN m
                  ELSE IF ~leaves_manual THEN Took(m, "manual_alive")
                  ELSE [Took(m, "manual_exited") EXCEPT !.backoff_state =
                           [state EXCEPT !.manual_mode = FALSE, !.manual_pid = None,
                                         !.failure_count = 0]]
        ELSE IF name = PatreonFeed /\ cools THEN Took(m, "cooling")
        ELSE IF tracked THEN m
        ELSE IF cmd \in popen_fails THEN m2
        ELSE IF name = PatreonFeed
             THEN [m3 EXCEPT !.backoff_state.last_attempt = m.now]
             ELSE m3

RECURSIVE OriginalDownloadLoop(_, _, _, _, _)
OriginalDownloadLoop(m, dl_feeds, list, i, popen_fails) ==
    IF i > Len(list) THEN m
    ELSE OriginalDownloadLoop(OriginalDownloadStep(m, dl_feeds, list[i], popen_fails),
                              dl_feeds, list, i + 1, popen_fails)

\* monitor_progress.main, lines 464-770: one pass of the loop
OriginalMainLoop(m, popen_fails, elapsed) ==
    LET seen == get_worker_counts(m.procs)
        feeds == get_feed_progress(m.rss_totals, m.files)
        history == UpdateHistory(m.progress_history, feeds)
        m0 == [m EXCEPT !.op = "tick", !.seen = seen, !.feeds = feeds,
                        !.launched = <<>>, !.branch = {},
                        !.progress_history = history,
                        !.stalled_feeds = StalledFeeds(history, feeds)]
        m1 == UpdateBackoff(m0, seen.dl_feeds, m.log_failed, popen_fails)
        NotComplete(f) == ~f.is_dl_complete
        m2 == IF seen.dl_workers < TARGET_DOWNLOADERS
              THEN OriginalDownloadLoop(m1, seen.dl_feeds,
                       Prefix(Filter(feeds, NotComplete),
                              TARGET_DOWNLOADERS - seen.dl_workers),
                       1, popen_fails)
              ELSE m1
        m3 == LaunchTranscribers(m2, seen, feeds, popen_fails)
        m4 == LaunchEnrichers(m3, seen, feeds, popen_fails)
        m5 == RemoveCompleted(m4, seen, feeds)
    IN  [m5 EXCEPT !.now = @ + elapsed]

----------------------------------------------------------------------------
(* The file lock of podcast_transcriber.py.  path is the inode that the    *)
(* name <audio file>.transcribing refers to (NoFile: no such file);        *)
(* flock[w] is the inode on which worker w holds an exclusive flock        *)
(* through an open handle.                                                 *)

TrWorkers == {"t1", "t2"}
NoFile == 0
Inodes == 1..3

TranscriptionInit ==
    [path |-> NoFile,
     flock |-> [w \in TrWorkers |-> NoFile],
     pc |-> [w \in TrWorkers |-> "idle"],
     transcript |-> FALSE,
     handle |-> [w \in TrWorkers |-> NoFile],  \* the inode a worker has opened
                                               \* and not locked yet
     cleanup |-> "idle"]        \* cleanup_stale_locks.py: its position

\* The flock on the inode is held by a worker other than w.
HeldByOther(t, w, inode) == \E o \in TrWorkers \ {w} : t.flock[o] = inode

\* is_lock_stale: the lock file is stale if its flock can be taken (the
\* process that held it is dead) or if it is older than max_age_hours.
is_lock_stale(t, w, aged) ==
    /\ t.path # NoFile
    /\ \/ ~HeldByOther(t, w, t.path)
       \/ aged

\* open(lock_file, 'w'): the file is created if the name is free
Opened(t) ==
    IF t.path # NoFile THEN t
    ELSE [t EXCEPT !.path =
            CHOOSE i \in Inodes :
                /\ \A w \in TrWorkers : t.flock[w] # i
                /\ \A j \in Inodes : (\A w \in TrWorkers : t.flock[w] # j) => i <= j]

\* acquire_file_lock: a stale lock file is unlinked, then the file is
\* opened and locked without blocking; None if the flock is refused.
acquire_file_lock(t, w, aged) ==
    LET cleaned == IF is_lock_stale(t, w, aged) THEN [t EXCEPT !.path = NoFile] ELSE t
        opened == Opened(cleaned)
    IN  IF HeldByOther(opened, w, opened.path)
        THEN [opened EXCEPT !.pc[w] = "skipped"]
        ELSE [opened EXCEPT !.flock[w] = opened.path, !.pc[w] = "transcribing"]

\* release_file_lock: unlock and close the handle, unlink the lock file if
\* the name exists.
release_file_lock(t, w) == [t EXCEPT !.flock[w] = NoFile, !.path = NoFile]

----------------------------------------------------------------------------
(* transcribe_directory of podcast_transcriber.py: a worker lists the audio *)
(* files of the directory that have no transcript and calls                 *)
(* transcribe_audio on each.  Every audio file has its own lock file.       *)

MaxAudio == 2
AudioFiles == 1..MaxAudio

DirectoryInit ==
    [lock |-> [f \in AudioFiles |-> TranscriptionInit],
     metadata |-> {},           \* the audio files whose metadata was rewritten
     state |-> [w \in TrWorkers |-> "idle"],
     audio_files |-> [w \in TrWorkers |-> <<>>],
     pos |-> [w \in TrWorkers |-> 1],
     successful |-> [w \in TrWorkers |-> <<>>],
     failed |-> [w \in TrWorkers |-> <<>>],
     skipped |-> [w \in TrWorkers |-> <<>>]]

\* audio_files = [f for f in all_audio_files if f.stem not in transcribed_names]
RECURSIVE Untranscribed(_, _)
Untranscribed(d, f) ==
    IF f > MaxAudio THEN <<>>
    ELSE (IF d.lock[f].transcript THEN <<>> ELSE <<f>>) \o Untranscribed(d, f + 1)

\* The loop of transcribe_directory with a skipped file put on the failed list
RecordSkippedAsFailed(d, w, f, result) ==
    [d EXCEPT !.successful[w] = IF result = "done" THEN Append(@, f) ELSE @,
              !.failed[w] = IF result # "done" THEN Append(@, f) ELSE @,
              !.pos[w] = @ + 1,
              !.state[w] = "looping"]

\* The loop of transcribe_directory after transcribe_audio has returned:
\* "skipped", a path, or None; then the next audio file
Record(d, w, f, result) ==
    [d EXCEPT !.skipped[w] = IF result = "skipped" THEN Append(@, f) ELSE @,
              !.successful[w] = IF result = "done" THEN Append(@, f) ELSE @,
              !.failed[w] = IF result \notin {"skipped", "done"} THEN Append(@, f) ELSE @,
              !.pos[w] = @ + 1,
              !.state[w] = "looping"]

----------------------------------------------------------------------------
(* utils/retry.py.  An exception is a record of what the code looks at:    *)
(* its class, the status code of its response attribute (NoResponse: the   *)
(* exception has no such attribute) and whether it is an OSError with one   *)
(* of the network errnos.                                                   *)

NoResponse == 0
ConnectionError_ == [class |-> "ConnectionError", status_code |-> NoResponse, errno |-> FALSE]
ValueError_ == [class |-> "ValueError", status_code |-> NoResponse, errno |-> FALSE]
HTTPError(status_code) == [class |-> "HTTPError", status_code |-> status_code, errno |-> FALSE]
HostUnreachable == [class |-> "OSError", status_code |-> NoResponse, errno |-> TRUE]

TRANSIENT_EXCEPTIONS ==
    {"ConnectionError", "TimeoutError", "ConnectionResetError", "BrokenPipeError"}
TRANSIENT_HTTP_CODES == {408, 429, 500, 502, 503, 504}
PERMANENT_HTTP_CODES == {400, 401, 403, 404, 410, 422}

\* isinstance(exception, classes): ConnectionResetError and BrokenPipeError
\* are subclasses of ConnectionError, every exception here is an Exception
IsInstance(exception, classes) ==
    \/ exception.class \in classes
    \/ "Exception" \in classes
    \/ /\ exception.class \in {"ConnectionResetError", "BrokenPipeError"}
       /\ "ConnectionError" \in classes
    \/ /\ exception.class \in TRANSIENT_EXCEPTIONS
       /\ "OSError" \in classes

\* hasattr(exception, 'response')
HasResponse(exception) == exception.status_code # NoResponse

is_transient_error(exception) ==
    IF IsInstance(exception, TRANSIENT_EXCEPTIONS) THEN TRUE
    ELSE IF HasResponse(exception) /\ exception.status_code \in TRANSIENT_HTTP_CODES THEN TRUE
    ELSE IF HasResponse(exception) /\ exception.status_code \in PERMANENT_HTTP_CODES THEN FALSE
    ELSE exception.errno

RECURSIVE Power(_, _)
Power(b, n) == IF n = 0 THEN 1 ELSE b * Power(b, n - 1)

\* The delay without the cap of max_delay
DelayUncapped(base_delay, exponential_base, max_delay, attempt) ==
    base_delay * Power(exponential_base, attempt)

\* delay = min(base_delay * (exponential_base ** attempt), max_delay)
Delay(base_delay, exponential_base, max_delay, attempt) ==
    Min(base_delay * Power(exponential_base, attempt), max_delay)

NoException == [class |-> "None", status_code |-> NoResponse, errno |-> FALSE]

\* last_exception before any call: Exception("No exception")
NoExceptionYet == [class |-> "Exception", status_code |-> NoResponse, errno |-> FALSE]

\* A loop that leaves out the first call
AttemptsWithoutFirst(max_retries) == max_retries

\* for attempt in range(max_retries + 1)
Attempts(max_retries) == max_retries + 1

\* One pass of the loop body of wrapper with the outcome of func: the value
\* returned, the exception raised to the caller, or the sleep before the
\* next pass; after the last pass, raise last_exception.
LoopBody(w, outcome) ==
    LET called == [w EXCEPT !.calls = Append(@, outcome)] IN
    IF outcome = NoException
    THEN [called EXCEPT !.pc = "returned"]
    ELSE IF ~IsInstance(outcome, w.exceptions)
    THEN [called EXCEPT !.pc = "raised", !.raised = outcome]
    ELSE IF ~is_transient_error(outcome) /\ HasResponse(outcome)
    THEN [called EXCEPT !.pc = "raised", !.raised = outcome]
    ELSE IF w.attempt < w.max_retries
    THEN LET delay == Delay(w.base_delay, w.exponential_base, w.max_delay, w.attempt) IN
         [called EXCEPT
            !.on_retry = IF w.has_on_retry
                         THEN Append(@, <<outcome, w.attempt + 1, delay>>) ELSE @,
            !.slept = Append(@, delay),
            !.attempt = @ + 1,
            !.pc = IF w.attempt + 1 < Attempts(w.max_retries) THEN "running" ELSE "raised",
            !.raised = IF w.attempt + 1 < Attempts(w.max_retries) THEN @ ELSE outcome]
    ELSE [called EXCEPT
            !.attempt = @ + 1,
            !.pc = IF w.attempt + 1 < Attempts(w.max_retries) THEN "running" ELSE "raised",
            !.raised = IF w.attempt + 1 < Attempts(w.max_retries) THEN @ ELSE outcome]

\* Before the wrapped function is called
WrapperInit ==
    [pc |-> "idle",
     max_retries |-> 0, base_delay |-> 1, max_delay |-> 1, exponential_base |-> 1,
     exceptions |-> {}, has_on_retry |-> FALSE,
     attempt |-> 0,             \* the loop variable
     calls |-> <<>>,            \* the outcome of every call of func
     on_retry |-> <<>>,         \* the calls of on_retry: (exception, attempt, delay)
     slept |-> <<>>,            \* the arguments of time.sleep
     raised |-> NoException]    \* the exception the wrapper has raised

----------------------------------------------------------------------------
(* utils/shutdown.py.  A worker process is "running", a "zombie" (ended,   *)
(* not yet waited for) or "none" (no process has the pid).  Time is counted *)
(* in the sleeps of half a second of the wait loop.                         *)

Pids == {1, 2}
Callbacks == {"a", "b"}
SleepsPerSecond == 2

\* GracefulShutdown(timeout), and no process yet
ShutdownInit ==
    [pc |-> "new",
     timeout |-> 0,
     worker_pids |-> {},
     cleanup_callbacks |-> <<>>,
     handlers_installed |-> FALSE,
     procs |-> [pid \in Pids |-> "none"],
     registered |-> {},         \* worker_pids when shutdown_workers began
     sigterm |-> {},            \* the pids that were sent SIGTERM
     sigkill |-> {},            \* the pids that were sent SIGKILL
     alive_at_timeout |-> {},   \* the pids running when the wait loop ended
     waited |-> 0,              \* the sleeps of the wait loop
     force_killed |-> 0,        \* the return value of shutdown_workers
     steps |-> <<>>,            \* the steps of shutdown() that have ended
     next_callback |-> 1,       \* run_cleanup: the loop over the callbacks
     called |-> <<>>,           \* the callbacks called, in order
     failed |-> {}]             \* the calls that raised an Exception

\* os.kill(pid, sig) raises ProcessLookupError
ProcessLookupError(s, pid) == s.procs[pid] = "none"

\* shutdown_workers up to the wait loop: SIGTERM to every registered worker
SendSigterm(s) ==
    LET there == {pid \in s.worker_pids : ~ProcessLookupError(s, pid)} IN
    [s EXCEPT !.registered = s.worker_pids,
              !.sigterm = there,
              !.worker_pids = there,
              !.waited = 0,
              !.force_killed = 0]

\* A wait loop without the timeout
KeepWaitingForWorkers(s) == s.worker_pids # {}

\* while self.worker_pids and (time.time() - start_time) < self.timeout
KeepWaiting(s) ==
    /\ s.worker_pids # {}
    /\ s.waited < SleepsPerSecond * s.timeout

\* One pass of the wait loop: os.waitpid(pid, WNOHANG) for every worker, a
\* worker that has ended is taken out of worker_pids (and is waited for);
\* then time.sleep(0.5) if workers are left
WaitPass(s) ==
    LET left == {pid \in s.worker_pids : s.procs[pid] = "running"} IN
    [s EXCEPT !.worker_pids = left,
              !.procs = [pid \in Pids |->
                            IF pid \in s.worker_pids /\ s.procs[pid] = "zombie"
                            THEN "none" ELSE s.procs[pid]],
              !.waited = IF left # {} THEN @ + 1 ELSE @]

\* After the wait loop: SIGKILL to every worker left, counted unless
\* ProcessLookupError; worker_pids is emptied
ForceKill(s) ==
    LET there == {pid \in s.worker_pids : ~ProcessLookupError(s, pid)} IN
    [s EXCEPT !.alive_at_timeout = {pid \in s.worker_pids : s.procs[pid] = "running"},
              !.sigkill = there,
              !.force_killed = Cardinality(there),
              !.procs = [pid \in Pids |->
                            IF pid \in there THEN "zombie" ELSE s.procs[pid]],
              !.worker_pids = {},
              !.steps = Append(@, "shutdown_workers")]

\* A run_cleanup that gives up at the first callback that raises
CallbackStopsAtError(s, raises) ==
    [s EXCEPT !.called = Append(@, s.cleanup_callbacks[s.next_callback]),
              !.failed = IF raises THEN @ \cup {s.next_callback} ELSE @,
              !.next_callback = IF raises THEN Len(s.cleanup_callbacks) + 1 ELSE @ + 1]

\* run_cleanup, one pass of its loop: the callback is called, an Exception
\* it raises is logged
Callback(s, raises) ==
    [s EXCEPT !.called = Append(@, s.cleanup_callbacks[s.next_callback]),
              !.failed = IF raises THEN @ \cup {s.next_callback} ELSE @,
              !.next_callback = @ + 1]

\* The worker holds the lock of the episode.
Holds(w, episode_id) ==
    \E l \in locks : l.episode_id = episode_id /\ l.worker_id = w

Idle == [op |-> "idle", episode_id |-> 0]

Init ==
    /\ episodes = <<>>
    /\ locks = {}
    /\ clock = 0
    /\ call = [w \in Workers |-> Idle]
    /\ alive = [w \in Workers |-> TRUE]
    /\ last = [op |-> "init", ret |-> 0]
    /\ race = [e \in EpisodeIds |-> {}]
    /\ won = [e \in EpisodeIds |-> {}]
    /\ lost = [e \in EpisodeIds |-> {}]
    /\ holder = [e \in EpisodeIds |-> NoWorker]
    /\ monitor = MonitorInit
    /\ transcription = TranscriptionInit
    /\ directory = DirectoryInit
    /\ wrapper = WrapperInit
    /\ shutdown = ShutdownInit

\* The callers whose acquire_lock on this id has begun and not returned
Pending(episode_id) ==
    {w \in Workers : call[w].op = "acquire_lock" /\ call[w].episode_id = episode_id}

\* Lock rows were deleted: the ids left without a row start a new race among
\* the calls pending on them.
RaceAfterDelete(deleted) ==
    LET ids == {l.episode_id : l \in deleted} IN
    /\ race' = [e \in EpisodeIds |-> IF e \in ids THEN Pending(e) ELSE race[e]]
    /\ won' = [e \in EpisodeIds |-> IF e \in ids THEN {} ELSE won[e]]
    /\ lost' = [e \in EpisodeIds |-> IF e \in ids THEN {} ELSE lost[e]]

----------------------------------------------------------------------------
(* Operations of ProgressDB *)

add_episode(podcast_name, episode_title, episode_url, guid) ==
    LET r == Upsert(episodes, podcast_name, episode_title, episode_url, guid, clock) IN
    /\ episodes' = r.rows
    /\ last' = [op |-> "add_episode", ret |-> r.id]
    /\ UNCHANGED <<locks, clock, call, alive, race, won, lost, holder, monitor, transcription, directory, wrapper, shutdown>>

update_status(episode_id, status, error_message, kwargs) ==
    /\ episodes' = UpdateWhereId(episodes, episode_id, status, error_message, kwargs, clock)
    /\ last' = [op |-> "update_status", ret |-> "None",
                episode_id |-> episode_id, status |-> status]
    /\ UNCHANGED <<locks, clock, call, alive, race, won, lost, holder, monitor, transcription, directory, wrapper, shutdown>>

NoKwargs == [k \in {} |-> NULL]

mark_downloading(episode_id) == update_status(episode_id, DOWNLOADING, NULL, NoKwargs)

mark_downloaded(episode_id, audio_path) ==
    update_status(episode_id, DOWNLOADED, NULL, [k \in {"audio_path"} |-> audio_path])

mark_transcribing(episode_id) == update_status(episode_id, TRANSCRIBING, NULL, NoKwargs)

mark_transcribed(episode_id, transcript_path) ==
    update_status(episode_id, TRANSCRIBED, NULL,
                  [k \in {"transcript_path"} |-> transcript_path])

mark_enriching(episode_id) == update_status(episode_id, ENRICHING, NULL, NoKwargs)

mark_enriched(episode_id, enrichment_path) ==
    update_status(episode_id, ENRICHED, NULL,
                  [k \in {"enrichment_path"} |-> enrichment_path])

mark_failed(episode_id, error_message) ==
    update_status(episode_id, FAILED, error_message, NoKwargs)

mark_skipped(episode_id, reason) ==
    update_status(episode_id, SKIPPED, reason, NoKwargs)

\* acquire_lock, entered: the worker has called and the INSERT has not run yet
acquire_lock_call(w, episode_id) ==
    /\ alive[w]
    /\ call[w] = Idle
    /\ call' = [call EXCEPT ![w] = [op |-> "acquire_lock", episode_id |-> episode_id]]
    /\ race' = [race EXCEPT ![episode_id] =
                    IF LockRows(locks, episode_id) = {} THEN @ \cup {w} ELSE @]
    /\ UNCHANGED <<episodes, locks, clock, alive, last, won, lost, holder, monitor, transcription, directory, wrapper, shutdown>>

\* acquire_lock, the INSERT and the return
acquire_lock_return(w) ==
    /\ alive[w]
    /\ call[w].op = "acquire_lock"
    /\ LET e == call[w].episode_id
           r == InsertLock(locks, episodes, e, w, clock)
           fk == ForeignKeyMissing(episodes, e)
           racing == w \in race[e] \ (won[e] \cup lost[e])
       IN  /\ locks' = r.rows
           /\ last' = [op |-> "acquire_lock", ret |-> r.ok]
           /\ holder' = IF r.ok THEN [holder EXCEPT ![e] = w] ELSE holder
           /\ race' = IF fk /\ racing THEN [race EXCEPT ![e] = @ \ {w}] ELSE race
           /\ won' = IF r.ok /\ racing THEN [won EXCEPT ![e] = @ \cup {w}] ELSE won
           /\ lost' = IF ~r.ok /\ ~fk /\ racing
                      THEN [lost EXCEPT ![e] = @ \cup {w}] ELSE lost
    /\ call' = [call EXCEPT ![w] = Idle]
    /\ UNCHANGED <<episodes, clock, alive, monitor, transcription, directory, wrapper, shutdown>>

release_lock(w, episode_id) ==
    LET gone == ReleaseRows(locks, episode_id, w) IN
    /\ alive[w]
    /\ call[w] = Idle
    /\ locks' = locks \ gone
    /\ last' = [op |-> "release_lock", ret |-> (Cardinality(gone) > 0)]
    /\ RaceAfterDelete(gone)
    /\ UNCHANGED <<episodes, clock, call, alive, holder, monitor, transcription, directory, wrapper, shutdown>>

cleanup_stale_locks(max_age_minutes) ==
    LET gone == StaleRows(locks, clock, max_age_minutes) IN
    /\ locks' = locks \ gone
    /\ last' = [op |-> "cleanup_stale_locks", ret |-> Cardinality(gone),
                max_age_minutes |-> max_age_minutes]
    /\ RaceAfterDelete(gone)
    /\ UNCHANGED <<episodes, clock, call, alive, holder, monitor, transcription, directory, wrapper, shutdown>>

\* reset_stuck_episodes: the three UPDATEs, then cleanup_stale_locks()
reset_stuck_episodes ==
    LET r == ResetRows(episodes, clock)
        gone == StaleRows(locks, clock, DefaultMaxAge)
    IN  /\ episodes' = r.rows
        /\ locks' = locks \ gone
        /\ last' = [op |-> "reset_stuck_episodes", ret |-> r.total]
        /\ RaceAfterDelete(gone)
        /\ UNCHANGED <<clock, call, alive, holder, monitor, transcription, directory, wrapper, shutdown>>

\* Time passes.
Tick ==
    /\ clock < MaxClock
    /\ clock' = clock + 1
    /\ UNCHANGED <<episodes, locks, call, alive, last, race, won, lost, holder, monitor, transcription, directory, wrapper, shutdown>>

\* A worker process is killed from outside; a call it had begun is lost.
Kill(w) ==
    /\ alive[w]
    /\ alive' = [alive EXCEPT ![w] = FALSE]
    /\ call' = [call EXCEPT ![w] = Idle]
    /\ race' = [e \in EpisodeIds |-> IF w \in Pending(e) THEN race[e] \ {w} ELSE race[e]]
    /\ UNCHANGED <<episodes, locks, clock, last, won, lost, holder, monitor, transcription, directory, wrapper, shutdown>>

----------------------------------------------------------------------------
(* The lock table under concurrent workers.  One episode is discovered;    *)
(* workers also ask for the lock of id 2, which no episode has.            *)

LockNext ==
    \/ \E p \in Podcasts : add_episode(p, "Ep1", NULL, NULL)
    \/ \E w \in Workers, e \in EpisodeIds : acquire_lock_call(w, e)
    \/ \E w \in Workers : acquire_lock_return(w)
    \/ \E w \in Workers, e \in EpisodeIds : release_lock(w, e)
    \/ cleanup_stale_locks(DefaultMaxAge)
    \/ reset_stuck_episodes
    \/ Tick

Spec == Init /\ [][LockNext]_vars

----------------------------------------------------------------------------
(* Properties of the lock table *)

\* C1: among the acquire_lock calls on one episode that were pending while
\* the episode had no lock row, at most one returns True, and once all of
\* them have returned exactly one has returned True and the others False.
C1_ExactlyOneWinner ==
    \A e \in EpisodeIds :
        /\ Cardinality(won[e]) <= 1
        /\ won[e] \cap lost[e] = {}
        /\ (race[e] # {} /\ race[e] = won[e] \cup lost[e]) => Cardinality(won[e]) = 1

\* Three workers raced for the same episode and all have returned.
C1_Witness ==
    \E e \in EpisodeIds :
        /\ Cardinality(race[e]) >= 3
        /\ race[e] = won[e] \cup lost[e]

\* C2: processing_locks holds at most one row per episode, and the row is
\* held by the worker whose acquire_lock returned True last for the episode.
C2_OneRowPerEpisode ==
    /\ \A e \in EpisodeIds : Cardinality(LockRows(locks, e)) <= 1
    /\ \A l \in locks : l.worker_id = holder[l.episode_id]

\* An acquire_lock has just failed on an episode whose lock was taken
\* after time had passed.
C2_Witness ==
    /\ last.op = "acquire_lock"
    /\ last.ret = FALSE
    /\ \E l \in locks : l.locked_at > 0 /\ l.worker_id = holder[l.episode_id]

\* C3: release_lock(episode, w) returns True and deletes the row exactly
\* when w holds the episode's lock; otherwise it returns False and the
\* table is unchanged.
C3_ReleaseOnlyByHolder ==
    [][\A w \in Workers, e \in EpisodeIds :
        release_lock(w, e) =>
            IF [episode_id |-> e, worker_id |-> w] \in
                   {[episode_id |-> l.episode_id, worker_id |-> l.worker_id] : l \in locks}
            THEN /\ last'.ret = TRUE
                 /\ LockRows(locks', e) = {}
                 /\ \A l \in locks : l.episode_id # e => l \in locks'
            ELSE /\ last'.ret = FALSE
                 /\ locks' = locks]_vars

\* release_lock by a worker that is not the holder has just returned False
\* and the holder's row is still there.
C3_Witness ==
    /\ last.op = "release_lock"
    /\ last.ret = FALSE
    /\ \E l \in locks : l.episode_id = 1 /\ l.worker_id = holder[1]

\* C35: acquire_lock(episode, w) returns True exactly when the episode
\* exists and has no lock row at the moment of the INSERT, and then the
\* table gains the row of w; otherwise it returns False and the table is
\* unchanged, also when w itself holds the lock and when the episode id
\* does not exist.
C35_AcquireExactlyWhenFree ==
    [][\A w \in Workers :
        acquire_lock_return(w) =>
            LET e == call[w].episode_id
                free == /\ \A l \in locks : l.episode_id # e
                        /\ e \in 1..Len(episodes)
            IN  /\ last'.ret = free
                /\ free => locks' = locks \cup {[episode_id |-> e, worker_id |-> w,
                                                 locked_at |-> clock]}
                /\ ~free => locks' = locks]_vars

\* acquire_lock has just returned False for an episode id that does not
\* exist, with no row in the table, after a lock was taken and released.
C35_Witness ==
    /\ last.op = "acquire_lock"
    /\ last.ret = FALSE
    /\ locks = {}
    /\ \E e \in EpisodeIds : holder[e] # NoWorker

----------------------------------------------------------------------------
(* The item store under arbitrary status requests.  One episode is         *)
(* discovered; callers also name id 2, which no episode has.               *)

ErrorInputs == {NULL, "", "Connection timeout"}

KwargInputs ==
    {NoKwargs,
     [k \in {"audio_path", "retries"} |-> IF k = "retries" THEN "3" ELSE "/path/to/audio.mp3"]}

StatusNext ==
    \/ \E p \in Podcasts : add_episode(p, "Ep1", NULL, NULL)
    \/ \E id \in 1..Len(episodes), s \in EpisodeStatus, em \in ErrorInputs,
          kw \in KwargInputs :
          update_status(id, s, em, kw)
    \/ \E id \in EpisodeIds : mark_downloading(id)
    \/ \E id \in EpisodeIds : mark_downloaded(id, "/path/to/audio.mp3")
    \/ \E id \in EpisodeIds : mark_transcribing(id)
    \/ \E id \in EpisodeIds : mark_transcribed(id, "/path/to/transcript.txt")
    \/ \E id \in EpisodeIds : mark_enriching(id)
    \/ \E id \in EpisodeIds : mark_enriched(id, "/path/to/enrichment.json")
    \/ \E id \in EpisodeIds : mark_failed(id, "Connection timeout")
    \/ \E id \in EpisodeIds : mark_skipped(id, "Already exists")
    \/ reset_stuck_episodes

StatusSpec == Init /\ [][StatusNext]_vars

----------------------------------------------------------------------------
(* The item store under pipeline workers, which move an item one step at   *)
(* a time, and crash recovery.                                             *)

\* The call a worker makes for an item in this status
worker_step(id) ==
    /\ id \in 1..Len(episodes)
    /\ \/ episodes[id].status = PENDING /\ mark_downloading(id)
       \/ episodes[id].status = DOWNLOADING /\ mark_downloaded(id, "/path/to/audio.mp3")
       \/ episodes[id].status = DOWNLOADED /\ mark_transcribing(id)
       \/ episodes[id].status = TRANSCRIBING
            /\ mark_transcribed(id, "/path/to/transcript.txt")
       \/ episodes[id].status = TRANSCRIBED /\ mark_enriching(id)
       \/ episodes[id].status = ENRICHING
            /\ mark_enriched(id, "/path/to/enrichment.json")
       \/ episodes[id].status \in ActiveStatuses /\ mark_failed(id, "Connection timeout")
       \/ episodes[id].status \in ActiveStatuses /\ mark_skipped(id, "Already exists")

PipelineNext ==
    \/ \E p \in Podcasts, t \in Titles : add_episode(p, t, NULL, NULL)
    \/ \E id \in EpisodeIds : worker_step(id)
    \/ reset_stuck_episodes

PipelineSpec == Init /\ [][PipelineNext]_vars

\* The columns reset_stuck_episodes may write
ResetColumns == {"status", "updated_at"}

\* C6: reset_stuck_episodes maps downloading to pending, transcribing to
\* downloaded, enriching to transcribed and leaves every other status and
\* every other column but updated_at alone; afterwards no item is in
\* progress, and it returns the number of items that were in progress.
C6_ResetMap ==
    [][reset_stuck_episodes =>
        /\ Len(episodes') = Len(episodes)
        /\ \A i \in 1..Len(episodes) :
              /\ episodes'[i].status = Demoted(episodes[i].status)
              /\ episodes'[i].status \notin InProgress
              /\ \A f \in DOMAIN episodes[i] \ ResetColumns :
                    episodes'[i][f] = episodes[i][f]
        /\ last'.ret = Cardinality({i \in 1..Len(episodes) :
                                       episodes[i].status \in InProgress})]_vars

\* Two stuck items were reset: one from transcribing, one from enriching.
C6_Witness ==
    /\ last.op = "reset_stuck_episodes"
    /\ last.ret = 2
    /\ Len(episodes) = 2
    /\ episodes[1].status = DOWNLOADED
    /\ episodes[1].transcribe_started_at # NullTime
    /\ episodes[1].transcribe_completed_at = NullTime
    /\ episodes[2].status = TRANSCRIBED
    /\ episodes[2].enrich_started_at # NullTime

\* C7: a reset_stuck_episodes that follows a reset_stuck_episodes with no
\* operation in between changes no status and returns 0.
C7_ResetIdempotent ==
    [][(last.op = "reset_stuck_episodes" /\ reset_stuck_episodes) =>
        /\ last'.ret = 0
        /\ \A i \in 1..Len(episodes) : episodes'[i].status = episodes[i].status]_vars

\* The last reset_stuck_episodes returned 0 with the demoted item of an
\* earlier reset still as that reset left it.
C7_Witness ==
    /\ last.op = "reset_stuck_episodes"
    /\ last.ret = 0
    /\ Len(episodes) = 2
    /\ episodes[1].status = PENDING
    /\ episodes[1].download_started_at # NullTime
    /\ episodes[2].status = DOWNLOADED
    /\ episodes[2].transcribe_started_at # NullTime

----------------------------------------------------------------------------
(* Discovery: the feed is read again and again while workers move its      *)
(* episode through the pipeline and time passes.                           *)

UrlInputs == {NULL, "url1", "url2"}
GuidInputs == {NULL, "guid1"}

UpsertNext ==
    \/ \E p \in Podcasts, u \in UrlInputs, g \in GuidInputs :
          add_episode(p, "Ep1", u, g)
    \/ \E id \in EpisodeIds : worker_step(id)
    \/ Tick

UpsertSpec == Init /\ [][UpsertNext]_vars

\* C9: add_episode on a (podcast_name, episode_title) that has a row adds no
\* row and returns that row's id; episode_url and guid take the call's
\* value when it gives one and keep their value when it gives none.
C9_UpsertIdempotent ==
    [][\A p \in Podcasts, t \in Titles, u \in UrlInputs, g \in GuidInputs :
        (add_episode(p, t, u, g) /\ FindEpisode(episodes, p, t) # {})
        => \E i \in 1..Len(episodes) :
              /\ FindEpisode(episodes, p, t) = {i}
              /\ FindEpisode(episodes', p, t) = {i}
              /\ Len(episodes') = Len(episodes)
              /\ last'.ret = i
              /\ episodes'[i].episode_url =
                     (IF u = NULL THEN episodes[i].episode_url ELSE u)
              /\ episodes'[i].guid = (IF g = NULL THEN episodes[i].guid ELSE g)]_vars

\* The episode was discovered again at a later time, after a worker had
\* claimed it: its url is a later call's and it has a guid.
C9_Witness ==
    /\ last.op = "add_episode"
    /\ last.ret = 1
    /\ Len(episodes) = 1
    /\ episodes[1].status = DOWNLOADING
    /\ episodes[1].episode_url = "url2"
    /\ episodes[1].guid = "guid1"
    /\ episodes[1].updated_at > episodes[1].created_at

\* The columns add_episode may write on a row that exists
UpsertColumns == {"episode_url", "guid", "updated_at"}

\* C10: add_episode on a (podcast_name, episode_title) that has a row
\* leaves every column of every row as it was, but episode_url, guid and
\* updated_at of that row.
C10_UpsertFrame ==
    [][(last'.op = "add_episode" /\ Len(episodes') = Len(episodes))
       => \A i \in 1..Len(episodes) :
             IF i = last'.ret
             THEN \A f \in DOMAIN episodes[i] \ UpsertColumns :
                     episodes'[i][f] = episodes[i][f]
             ELSE episodes'[i] = episodes[i]]_vars

\* A failed item that had been downloaded was discovered again.
C10_Witness ==
    /\ last.op = "add_episode"
    /\ last.ret = 1
    /\ Len(episodes) = 1
    /\ episodes[1].status = FAILED
    /\ episodes[1].error_message # NULL
    /\ episodes[1].audio_path # NULL
    /\ episodes[1].download_completed_at # NullTime
    /\ episodes[1].updated_at > episodes[1].download_completed_at

----------------------------------------------------------------------------
(* The error message of an item.                                           *)

\* C11 as claimed: an item whose error_message is set has status failed or
\* skipped.
C11_Claim_ErrorOnlyWhenFailed ==
    \A i \in 1..Len(episodes) :
        episodes[i].error_message # NULL
        => episodes[i].status \in {FAILED, SKIPPED}

\* The artifact path column a status is written with, and the path the
\* workers pass for it
PathOf ==
    [s \in {DOWNLOADED, TRANSCRIBED, ENRICHED} |->
        CASE s = DOWNLOADED -> [key |-> "audio_path", value |-> "/path/to/audio.mp3"]
          [] s = TRANSCRIBED -> [key |-> "transcript_path", value |-> "/path/to/transcript.txt"]
          [] s = ENRICHED -> [key |-> "enrichment_path", value |-> "/path/to/enrichment.json"]]

\* C12: a status write is one step.  Every step that changes an item's
\* status also writes, in the same step, the stage timestamp of the new
\* status and the artifact path passed with it; hence no state shows an item
\* downloaded, transcribed or enriched without its path and completion
\* timestamp.
C12_StatusWriteAtomic ==
    /\ [][\A i \in 1..Len(episodes) :
            episodes'[i].status # episodes[i].status
            => LET s == episodes'[i].status IN
               /\ episodes'[i].updated_at = clock
               /\ s \in TimestampStatuses
                  => episodes'[i][TimestampField(s)] = clock
               /\ s \in DOMAIN PathOf
                  => episodes'[i][PathOf[s].key] = PathOf[s].value]_vars
    /\ [](\A i \in 1..Len(episodes) :
            episodes[i].status \in DOMAIN PathOf
            => /\ episodes[i][PathOf[episodes[i].status].key] # NULL
               /\ episodes[i][TimestampField(episodes[i].status)] # NullTime)

\* A downloading item has been marked downloaded after time had passed: the
\* path and the completion timestamp are there with the status.
C12_Witness ==
    /\ last.op = "update_status"
    /\ Len(episodes) = 1
    /\ episodes[1].status = DOWNLOADED
    /\ episodes[1].audio_path = "/path/to/audio.mp3"
    /\ episodes[1].download_completed_at = clock
    /\ episodes[1].download_started_at < clock

----------------------------------------------------------------------------
(* Queries.                                                                *)

\* Ids of the rows WHERE status = ? [AND podcast_name = ?]: the podcast
\* filter is applied only when a podcast name is given (if podcast_name:).
Matching(rows, status, podcast_name) ==
    {i \in 1..Len(rows) :
        /\ rows[i].status = status
        /\ Truthy(podcast_name) => rows[i].podcast_name = podcast_name}

\* ORDER BY created_at DESC
OrderedDesc(rows, ids) ==
    {o \in [1..Cardinality(ids) -> ids] :
        /\ \A a, b \in DOMAIN o : a # b => o[a] # o[b]
        /\ \A a, b \in DOMAIN o : a < b => rows[o[a]].created_at >= rows[o[b]].created_at}

\* ORDER BY created_at ASC: the orders of the ids in which created_at never
\* decreases; rows of equal created_at come in an order SQLite does not fix.
Ordered(rows, ids) ==
    {o \in [1..Cardinality(ids) -> ids] :
        /\ \A a, b \in DOMAIN o : a # b => o[a] # o[b]
        /\ \A a, b \in DOMAIN o : a < b => rows[o[a]].created_at <= rows[o[b]].created_at}

\* LIMIT ?: the first limit rows; a negative limit is no limit in SQLite.
Limit(o, limit) ==
    IF limit < 0 \/ limit >= Len(o) THEN o ELSE SubSeq(o, 1, limit)

\* The ids of the rows get_episodes_by_status returns, in order
get_episodes_by_status(status, podcast_name, limit) ==
    /\ \E o \in Ordered(episodes, Matching(episodes, status, podcast_name)) :
          last' = [op |-> "get_episodes_by_status", ret |-> Limit(o, limit),
                   status |-> status, podcast_name |-> podcast_name,
                   limit |-> limit]
    /\ UNCHANGED <<episodes, locks, clock, call, alive, race, won, lost, holder, monitor, transcription, directory, wrapper, shutdown>>

MaxLimit == 2
QueryPodcasts == {"PodX", "PodY"}
QueryKeys == {<<"PodX", "Ep1">>, <<"PodX", "Ep2">>, <<"PodY", "Ep1">>}
QueryStatuses == {PENDING, DOWNLOADED}
LimitInputs == 0..MaxLimit

QueryNext ==
    \/ \E k \in QueryKeys : add_episode(k[1], k[2], NULL, NULL)
    \/ \E id \in 1..Len(episodes) :
          episodes[id].status = PENDING /\ mark_downloaded(id, "/path/to/audio.mp3")
    \/ \E s \in QueryStatuses, p \in QueryPodcasts \cup {NULL}, l \in LimitInputs :
          get_episodes_by_status(s, p, l)
    \/ Tick

QuerySpec == Init /\ [][QueryNext]_vars

\* The result holds only rows of the requested status (and podcast, when one
\* is given), in ascending creation order, and leaves out no matching row
\* created before a row it holds.
QueryResultOrdered(r) ==
    LET ret == r.ret
        matching == Matching(episodes, r.status, r.podcast_name)
    IN  /\ \A a \in DOMAIN ret : ret[a] \in matching
        /\ \A a, b \in DOMAIN ret : a # b => ret[a] # ret[b]
        /\ \A a, b \in DOMAIN ret :
              a < b => episodes[ret[a]].created_at <= episodes[ret[b]].created_at
        /\ \A i \in matching :
              (\A a \in DOMAIN ret : ret[a] # i)
              => \A a \in DOMAIN ret :
                    episodes[ret[a]].created_at <= episodes[i].created_at

\* C13: the result has at most limit items, all of the requested status
\* (and podcast, when one is given), in ascending creation order, none
\* omitted in favour of a later-created one; a result shorter than limit
\* holds every matching item.
C13_QueryFirstMatching ==
    last.op = "get_episodes_by_status"
    => LET n == Cardinality(Matching(episodes, last.status, last.podcast_name)) IN
       /\ Len(last.ret) <= last.limit
       /\ Len(last.ret) < last.limit => Len(last.ret) = n
       /\ QueryResultOrdered(last)

\* Two pending items of PodX created at different times, and a query for
\* one pending item of PodX has returned the earlier one.
C13_Witness ==
    /\ last.op = "get_episodes_by_status"
    /\ last.limit = 1
    /\ last.podcast_name = "PodX"
    /\ Len(last.ret) = 1
    /\ \E i \in Matching(episodes, last.status, last.podcast_name) :
          episodes[i].created_at > episodes[last.ret[1]].created_at
    /\ \E i \in 1..Len(episodes) : episodes[i].podcast_name = "PodY"

----------------------------------------------------------------------------
(* The stale-lock sweep.                                                   *)

\* Each item has a worker of its own that locks it.
SweepWorkers == {"worker-1", "worker-2"}
SweepWorkerOf(episode_id) == IF episode_id = 1 THEN "worker-1" ELSE "worker-2"
MaxAgeInputs == {0, DefaultMaxAge, TickMinutes}

SweepNext ==
    \/ \E p \in Podcasts, t \in Titles : add_episode(p, t, NULL, NULL)
    \/ \E e \in 1..Len(episodes) : acquire_lock_call(SweepWorkerOf(e), e)
    \/ \E w \in SweepWorkers : acquire_lock_return(w)
    \/ \E e \in 1..Len(episodes) :
          /\ episodes[e].status = PENDING
          /\ Holds(SweepWorkerOf(e), e)
          /\ mark_downloading(e)
    \/ \E m \in MaxAgeInputs : cleanup_stale_locks(m)
    \/ Tick

SweepSpec == Init /\ [][SweepNext]_vars

\* The age of a lock row in minutes
Age(l) == (clock - l.locked_at) * TickMinutes

\* C14: cleanup_stale_locks(max_age) deletes the lock rows older than
\* max_age minutes and no other, whoever holds them and whatever the item's
\* status, and returns the number of rows deleted.
C14_SweepExact ==
    [][\A m \in MaxAgeInputs :
          cleanup_stale_locks(m)
          => /\ locks' = {l \in locks : ~(Age(l) > m)}
             /\ last'.ret = Cardinality({l \in locks : Age(l) > m})
             /\ episodes' = episodes]_vars

\* A sweep with max_age of one tick has deleted nothing and left two rows:
\* one exactly one tick old on a downloading item, one fresh, held by
\* different workers.
C14_Witness ==
    /\ last.op = "cleanup_stale_locks"
    /\ last.max_age_minutes = TickMinutes
    /\ last.ret = 0
    /\ \E l1, l2 \in locks :
          /\ Age(l1) = TickMinutes
          /\ Age(l2) = 0
          /\ l1.worker_id # l2.worker_id
          /\ episodes[l1.episode_id].status = DOWNLOADING

----------------------------------------------------------------------------
(* Feed progress computed from file counts.                                *)

store == <<episodes, locks, clock, call, alive, last, race, won, lost, holder>>

MaxFiles == 2
\* The counts of valid audio files, .txt files and _enriched.json files of
\* a podcast: every combination for Feed A, a few for Feed B
FileCounts ==
    [n \in {"Feed A", "Feed B"} |->
        IF n = "Feed A"
        THEN [downloaded : 0..MaxFiles, txt : 0..MaxFiles + 1, enriched : 0..MaxFiles + 1]
        ELSE [downloaded : {0, 1, MaxFiles}, txt : {0, MaxFiles}, enriched : {0}]]
\* fetch_rss_totals(): the feeds with a cached RSS count, and the count
RssInputs ==
    {[n \in {} |-> 0]} \cup [{"Feed A"} -> 1..MaxFiles + 1]
        \cup [{"Feed A", "Feed B"} -> {1, MaxFiles}]

\* main(), before the loop: the RSS totals are fetched once.
startup(rss_totals) ==
    /\ monitor.op = "init"
    /\ monitor' = [monitor EXCEPT !.op = "startup", !.rss_totals = rss_totals]
    /\ UNCHANGED <<store, transcription, directory, wrapper, shutdown>>

\* The files on disk change and the monitor scans them.
scan(name, counts) ==
    LET files == [monitor.files EXCEPT ![name] = counts] IN
    /\ monitor.op # "init"
    /\ monitor' = [monitor EXCEPT !.op = "get_feed_progress",
                                  !.files = files,
                                  !.feeds = get_feed_progress(monitor.rss_totals, files)]
    /\ UNCHANGED <<store, transcription, directory, wrapper, shutdown>>

ProgressNext ==
    \/ \E r \in RssInputs : startup(r)
    \/ \E n \in DOMAIN FileCounts : \E c \in FileCounts[n] : scan(n, c)

ProgressSpec == Init /\ [][ProgressNext]_vars

\* C15 as claimed: in every computed FeedProgress transcribed <= downloaded
\* and enriched <= transcribed, and trans_remaining and enrich_remaining
\* are not negative.
C15_Claim_Clamped ==
    \A i \in DOMAIN monitor.feeds :
        LET f == monitor.feeds[i] IN
        /\ f.transcribed <= f.downloaded
        /\ f.enriched <= f.transcribed
        /\ f.trans_remaining >= 0
        /\ f.enrich_remaining >= 0

----------------------------------------------------------------------------
(* The monitor loop and the worker processes.                              *)

MaxProcs == 3
MaxFailures == 3

TotalProcs(m) == SumOver(m.procs, ProcKinds)

\* The clock of the monitor is kept relative: every pass begins at
\* Epoch, and an attempt further back than max_delay seconds, which no
\* comparison of the loop tells from one max_delay seconds back, is kept
\* as that.
Epoch == PATREON_MAX_DELAY

Rebase(m) ==
    LET shift == m.now - Epoch
        at == m.backoff_state.last_attempt
    IN  [m EXCEPT !.now = Epoch,
                  !.backoff_state.last_attempt =
                      IF at = NoAttempt THEN NoAttempt ELSE Max(at - shift, 0)]

\* One pass of the loop of main()
tick(popen_fails, elapsed, max_procs) ==
    LET m == MainLoop(monitor, popen_fails, elapsed) IN
    /\ monitor.op # "init"
    /\ TotalProcs(m) <= max_procs
    /\ m.backoff_state.failure_count <= MaxFailures
    /\ monitor' = Rebase(m)
    /\ UNCHANGED <<store, transcription, directory, wrapper, shutdown>>

\* A worker process ends; a downloader of the Patreon feed leaves a log
\* that shows an error or not.
process_exit(k, failed) ==
    /\ monitor.procs[k] > 0
    /\ monitor' = [monitor EXCEPT
                      !.op = "exit",
                      !.procs[k] = @ - 1,
                      !.log_failed = IF k.cmd = PatreonDownloader_py THEN failed ELSE @]
    /\ UNCHANGED <<store, transcription, directory, wrapper, shutdown>>

\* The workers write files: the counts of a podcast change.
files_change(name, counts) ==
    /\ monitor.op # "init"
    /\ monitor.files[name] # counts
    /\ monitor' = [monitor EXCEPT !.op = "files", !.files[name] = counts]
    /\ UNCHANGED <<store, transcription, directory, wrapper, shutdown>>

Files(downloaded, txt, enriched) ==
    [downloaded |-> downloaded, txt |-> txt, enriched |-> enriched]

SupervisorRss ==
    {[n \in FeedNames |-> 1]}
SupervisorFiles ==
    [n \in FeedNames |->
        CASE n = "Feed A" -> {Files(1, 0, 0), Files(1, 1, 0)}
          [] n = "Feed B" -> {Files(2, 1, 1)}
          [] n = PatreonFeed -> {Files(1, 1, 1)}]

\* The time a pass of the loop and its sleep take
SupervisorElapsed == 10 * PATREON_BASE_DELAY

SupervisorNext ==
    \/ \E r \in SupervisorRss : startup(r)
    \/ \E n \in FeedNames : \E c \in SupervisorFiles[n] : files_change(n, c)
    \/ \E x \in {{}, {ManualAssistant_py}} : tick(x, SupervisorElapsed, MaxProcs)
    \/ \E k \in ProcKinds, failed \in BOOLEAN : process_exit(k, failed)

SupervisorSpec == Init /\ [][SupervisorNext]_vars

\* The entry of a feed in the feed list of the last pass
Entry(name) ==
    CHOOSE f \in {monitor.feeds[i] : i \in DOMAIN monitor.feeds} : f.name = name

\* The workers of a stage launched in the last pass, in the order of launch
LaunchedOf(stage) ==
    LET OfStage(l) == l.stage = stage IN SelectSeq(monitor.launched, OfStage)

\* C16 as claimed: remaining = total - downloaded, and a feed with
\* downloaded >= total is download-complete and is given no download
\* worker.
C16_Claim_CompleteWhenAllDownloaded ==
    \A i \in DOMAIN monitor.feeds :
        LET f == monitor.feeds[i] IN
        /\ f.remaining = f.total - f.downloaded
        /\ f.downloaded >= f.total
           => /\ f.is_dl_complete
              /\ \A j \in DOMAIN monitor.launched :
                    ~(monitor.launched[j].stage = "download"
                      /\ monitor.launched[j].feed = f.name)

\* The feed list is in ascending remaining, ties in descending book score.
FeedListInPriorityOrder ==
    \A a, b \in DOMAIN monitor.feeds :
        LET f == monitor.feeds[a]
            g == monitor.feeds[b]
        IN  a < b => \/ f.remaining < g.remaining
                     \/ f.remaining = g.remaining /\ f.book_score >= g.book_score

\* The launches of a stage follow the feed list: no worker is launched for
\* a feed after one for a feed that comes later in the list.
InListOrder(stage) ==
    LET l == LaunchedOf(stage)
        Index(name) == CHOOSE i \in DOMAIN monitor.feeds : monitor.feeds[i].name = name
    IN  \A a, b \in DOMAIN l : a < b => Index(l[a].feed) <= Index(l[b].feed)

C29_CompletedNotTracked ==
    monitor.op = "tick"
        => \A i \in DOMAIN monitor.feeds :
              LET f == monitor.feeds[i] IN
              /\ f.is_dl_complete => f.name \notin monitor.active_dl_feeds
              /\ f.is_tr_complete => f.name \notin DOMAIN monitor.active_tr_feeds_count
              /\ f.is_en_complete => f.name \notin monitor.active_en_feeds

\* The transcripts of a feed are complete while its transcriber still
\* runs: the pass has left the feed untracked
C29_Witness ==
    /\ monitor.op = "tick"
    /\ \E i \in DOMAIN monitor.feeds :
          LET f == monitor.feeds[i] IN
          /\ f.is_tr_complete
          /\ monitor.procs[Kind(Transcriber_py, f.name)] > 0
          /\ f.name \in monitor.seen.tr_feeds
          /\ f.name \notin DOMAIN monitor.active_tr_feeds_count

----------------------------------------------------------------------------
(* The enrichment stage over many passes: three feeds, downloaded and      *)
(* transcribed, each with a transcript that is not enriched yet.           *)

MaxEnrichers == 21

EnrichRss == [n \in FeedNames |-> 1]
EnrichFiles == Files(1, 1, 0)

EnrichNext ==
    \/ startup(EnrichRss)
    \/ \E n \in FeedNames : files_change(n, EnrichFiles)
    \/ tick({}, REFRESH_INTERVAL, MaxEnrichers)
    \/ \E n \in FeedNames : process_exit(Kind(Enrichment_main, n), FALSE)

EnrichSpec == Init /\ [][EnrichNext]_vars

\* The workers of a stage that run
RunningOf(stage) ==
    LET cmds == CASE stage = "download" -> {Downloader_py, PatreonDownloader_py}
                  [] stage = "transcribe" -> {Transcriber_py}
                  [] stage = "enrich" -> {Enrichment_main}
    IN  SumOver(monitor.procs, {k \in ProcKinds : k.cmd \in cmds})

\* C18 as claimed: a pass launches at most target - current workers of a
\* stage, current being the workers of the stage the pass has found, and
\* the workers of a stage that run at the same time are never more than
\* the target of the stage.
C18_Claim_TargetsRespected ==
    /\ monitor.op = "tick"
       => /\ Len(LaunchedOf("download")) <= Max(TARGET_DOWNLOADERS - monitor.seen.dl_workers, 0)
          /\ Len(LaunchedOf("transcribe")) <= Max(TARGET_TRANSCRIBERS - monitor.seen.tr_workers, 0)
          /\ Len(LaunchedOf("enrich")) <= Max(TARGET_ENRICHERS - monitor.seen.en_workers, 0)
    /\ RunningOf("download") <= TARGET_DOWNLOADERS
    /\ RunningOf("transcribe") <= TARGET_TRANSCRIBERS
    /\ RunningOf("enrich") <= TARGET_ENRICHERS

\* The workers of a stage that run for a feed
RunningFor(stage, name) ==
    LET cmds == CASE stage = "download" -> {Downloader_py, PatreonDownloader_py}
                  [] stage = "transcribe" -> {Transcriber_py}
                  [] stage = "enrich" -> {Enrichment_main}
    IN  SumOver(monitor.procs, {k \in ProcKinds : k.cmd \in cmds /\ k.feed = name})

\* C19 as claimed: a pass launches no download or enrichment worker for a
\* feed for which it has found one running, and no worker of a stage for a
\* feed whose stage is complete; at any time at most one download worker
\* and at most one enrichment worker run for a feed.
C19_Claim_OneWorkerPerFeed ==
    /\ monitor.op = "tick"
       => \A i \in DOMAIN monitor.launched :
             LET l == monitor.launched[i]
                 f == Entry(l.feed)
             IN  /\ l.stage = "download"
                    => l.feed \notin monitor.seen.dl_feeds /\ ~f.is_dl_complete
                 /\ l.stage = "transcribe" => ~f.is_tr_complete
                 /\ l.stage = "enrich"
                    => l.feed \notin monitor.seen.en_feeds /\ ~f.is_en_complete
    /\ \A n \in FeedNames :
          /\ RunningFor("download", n) <= 1
          /\ RunningFor("enrich", n) <= 1

----------------------------------------------------------------------------
(* The transcription stage with feeds of many episodes: Feed A has 120     *)
(* episodes and Feed B 100, all downloaded; a transcript that exists is     *)
(* enriched.                                                                *)

FanOutRss == [n \in FeedNames |-> CASE n = "Feed A" -> 120
                                    [] n = "Feed B" -> 100
                                    [] OTHER -> 1]
FanOutFiles ==
    [n \in {"Feed A", "Feed B"} |->
        IF n = "Feed A"
        THEN {Files(120, 0, 0), Files(120, 70, 70), Files(120, 71, 71)}
        ELSE {Files(100, 0, 0)}]
FanOutPopen == {{}, {Transcriber_py}}

FanOutNext ==
    \/ startup(FanOutRss)
    \/ \E n \in DOMAIN FanOutFiles : \E c \in FanOutFiles[n] : files_change(n, c)
    \/ \E x \in FanOutPopen : tick(x, REFRESH_INTERVAL, TARGET_TRANSCRIBERS)
    \/ \E n \in DOMAIN FanOutFiles : process_exit(Kind(Transcriber_py, n), FALSE)

FanOutSpec == Init /\ [][FanOutNext]_vars

\* The transcribers launched for a feed in the last pass
LaunchedIn(m, name) ==
    Cardinality({i \in DOMAIN m.launched :
                    m.launched[i] = [stage |-> "transcribe", feed |-> name]})

\* The transcription workers tracked for a feed
TrackedIn(m, name) == Get(m.active_tr_feeds_count, name, 0)

\* C20: a pass launches a transcriber for a feed with trans_remaining below
\* 50 only if none is tracked for it, and then one; for a feed with
\* trans_remaining of 50 or more the tracked workers after a launch are at
\* most min(slots available, trans_remaining div 50); a feed with
\* trans_remaining 120 that is the first candidate, with 4 slots available,
\* no tracked worker and no launch failing, is given exactly 2 workers.
C20_FanOut ==
    [][\A x \in FanOutPopen :
        tick(x, REFRESH_INTERVAL, TARGET_TRANSCRIBERS) =>
        \A i \in DOMAIN monitor'.feeds :
            LET f == monitor'.feeds[i]
                slots == TARGET_TRANSCRIBERS - monitor'.seen.tr_workers
                before == TrackedIn(monitor, f.name)
                after == TrackedIn(monitor', f.name)
                n == LaunchedIn(monitor', f.name)
            IN  /\ after = before + n
                /\ n > 0 /\ f.trans_remaining < 50 => before = 0 /\ after = 1
                /\ n > 0 /\ f.trans_remaining >= 50
                   => after <= Min(slots, f.trans_remaining \div 50)
                /\ /\ f.trans_remaining = 120
                   /\ slots = 4
                   /\ before = 0
                   /\ x = {}
                   /\ \A j \in DOMAIN monitor'.feeds :
                         j # i => monitor'.feeds[j].trans_remaining < 120
                   => n = 2]_vars

\* A pass has found two transcribers running and launched two for a feed
\* with 120 episodes to transcribe
C20_Witness ==
    /\ monitor.op = "tick"
    /\ monitor.seen.tr_workers = 2
    /\ \E i \in DOMAIN monitor.feeds :
          /\ monitor.feeds[i].trans_remaining = 120
          /\ LaunchedIn(monitor, monitor.feeds[i].name) = 2
          /\ TrackedIn(monitor, monitor.feeds[i].name) = 2

----------------------------------------------------------------------------
(* Stall detection: Feed A has 10, 11, 593 or 594 episodes on disk of the  *)
(* 12, 18 or 600 of its RSS feed; every transcript exists and is enriched. *)

StallRss == {[n \in FeedNames |-> t] : t \in {12, 18, 600}}
StallFiles == {Files(d, d, d) : d \in {10, 11, 593, 594}}
StallPass == tick({}, REFRESH_INTERVAL, MaxProcs)

StallNext ==
    \/ \E r \in StallRss : startup(r)
    \/ \E c \in StallFiles : files_change("Feed A", c)
    \/ StallPass
    \/ process_exit(Kind(Downloader_py, "Feed A"), FALSE)

StallSpec == Init /\ [][StallNext]_vars

\* C28: after a pass the history of a feed is its history before the pass
\* with the downloaded count of the pass appended, cut to the last
\* STALL_THRESHOLD samples; the feed is flagged stalled in the pass
\* exactly when the history holds STALL_THRESHOLD samples, all equal, the
\* feed is not download-complete, remaining > 5 and downloaded / total is
\* below 99 percent.
C28_StallDetection ==
    [][StallPass =>
        \A i \in DOMAIN monitor'.feeds :
            LET f == monitor'.feeds[i]
                before == Get(monitor.progress_history, f.name, <<>>)
                h == monitor'.progress_history[f.name]
            IN  /\ Len(h) <= STALL_THRESHOLD
                /\ h = IF Len(before) = STALL_THRESHOLD
                       THEN Append(Tail(before), f.downloaded)
                       ELSE Append(before, f.downloaded)
                /\ f.name \in monitor'.stalled_feeds
                   <=> /\ Len(h) = STALL_THRESHOLD
                       /\ \A x \in DOMAIN h : h[x] = h[1]
                       /\ ~f.is_dl_complete
                       /\ f.remaining > 5
                       /\ f.downloaded * 100 < 99 * f.total]_vars

\* Five samples of 10 and 8 episodes remaining: the feed is flagged
C28_Witness ==
    /\ monitor.op = "tick"
    /\ Get(monitor.progress_history, "Feed A", <<>>) = <<10, 10, 10, 10, 10>>
    /\ monitor.rss_totals["Feed A"] = 18
    /\ Entry("Feed A").remaining = 8
    /\ "Feed A" \in monitor.stalled_feeds

----------------------------------------------------------------------------
(* The backoff of the rate-limited feed: the Patreon feed has one of its   *)
(* three episodes; its downloader ends with or without an error in its    *)
(* log, and the manual download assistant ends.                            *)

BackoffRss == [n \in FeedNames |-> 3]
BackoffFiles == {Files(1, 1, 1)}
BackoffPopen == {{}, {ManualAssistant_py}}
BackoffElapsed == {REFRESH_INTERVAL, PATREON_BASE_DELAY, SupervisorElapsed}
BackoffExits == {Kind(PatreonDownloader_py, PatreonFeed),
                 Kind(ManualAssistant_py, PatreonFeed)}

BackoffNext ==
    \/ startup(BackoffRss)
    \/ \E c \in BackoffFiles : files_change(PatreonFeed, c)
    \/ \E x \in BackoffPopen, e \in BackoffElapsed : tick(x, e, MaxProcs)
    \/ \E k \in BackoffExits, failed \in BOOLEAN : process_exit(k, failed)

BackoffSpec == Init /\ [][BackoffNext]_vars

\* The pass has launched a download worker for the rate-limited feed
AutoLaunched(m) ==
    \E i \in DOMAIN m.launched :
        m.launched[i] = [stage |-> "download", feed |-> PatreonFeed]

\* C22 as claimed: a pass in which the backoff state of the rate-limited
\* feed has manual_mode = true launches no automatic download worker for
\* the feed, also when the manual download assistant could not be started.
C22_Claim_NoAutoLaunchInManualMode ==
    monitor.op = "tick" /\ monitor.backoff_state.manual_mode
        => ~AutoLaunched(monitor)

\* C23 as claimed: the pass that observes the failure by which the count
\* of consecutive failures reaches MANUAL_FAILOVER_THRESHOLD enters manual
\* mode and starts the manual download assistant exactly once, and a pass
\* that ends in manual mode has launched no automatic worker for the feed.
C23_Claim_ManualFailover ==
    [][\A x \in BackoffPopen, e \in BackoffElapsed :
        tick(x, e, MaxProcs) =>
        /\ /\ "failed" \in monitor'.branch
           /\ monitor'.backoff_state.failure_count >= MANUAL_FAILOVER_THRESHOLD
           /\ ~monitor.backoff_state.manual_mode
           => /\ monitor'.backoff_state.manual_mode
              /\ monitor'.procs[Kind(ManualAssistant_py, PatreonFeed)]
                    = monitor.procs[Kind(ManualAssistant_py, PatreonFeed)] + 1
        /\ monitor'.backoff_state.manual_mode => ~AutoLaunched(monitor')]_vars

C26_Claim_BackoffFromFailure ==
    monitor.op = "tick" /\ "failed" \in monitor.branch
        => ~AutoLaunched(monitor)

\* C27: the pass that finds that the worker of the feed has ended without a
\* failure in its log sets failure_count to 0 and leaves manual mode, and
\* no cool-down holds the feed back: the feed, which is not
\* download-complete, is given a worker in that pass.
C27_SuccessResets ==
    monitor.op = "tick" /\ "succeeded" \in monitor.branch
        => /\ monitor.backoff_state.failure_count = 0
           /\ ~monitor.backoff_state.manual_mode
           /\ "cooling" \notin monitor.branch
           /\ AutoLaunched(monitor)

\* A worker of the feed has failed and a later one has ended without a
\* failure: the pass that finds it has launched the next worker.
C27_Witness ==
    /\ monitor.op = "tick"
    /\ "reset" \in monitor.branch
    /\ monitor.backoff_state.failure_count = 0
    /\ AutoLaunched(monitor)

\* C38: each launched automatic worker of the rate-limited feed is
\* evaluated for failure at most once.  A pass raises failure_count by at
\* most 1, and only when the feed was tracked in active_dl_feeds and no
\* downloader of the feed is running; the evaluation takes the feed out of
\* active_dl_feeds, which holds it again only if the same pass has launched
\* a new worker; the feed enters active_dl_feeds by a launch only, and an
\* evaluation that resets the count leaves the feed untracked unless a
\* worker is launched: so failure_count never exceeds the number of
\* workers launched since the last reset.
C38_EvaluatedOnce ==
    [][LET before == monitor.backoff_state.failure_count
           after == monitor'.backoff_state.failure_count
           tracked == PatreonFeed \in monitor.active_dl_feeds
           running == \E k \in ProcKinds :
                         /\ k.feed = PatreonFeed
                         /\ k.cmd \in {Downloader_py, PatreonDownloader_py}
                         /\ monitor.procs[k] > 0
           evaluated == /\ monitor'.op = "tick"
                        /\ monitor.backoff_state.last_attempt # NoAttempt
                        /\ tracked
                        /\ ~running
       IN  /\ after <= before + 1
           /\ after > before => evaluated /\ monitor.log_failed
           /\ evaluated =>
                 /\ after = (IF monitor.log_failed THEN before + 1 ELSE 0)
                 /\ PatreonFeed \in monitor'.active_dl_feeds
                       <=> AutoLaunched(monitor')
           /\ PatreonFeed \in monitor'.active_dl_feeds /\ ~tracked
                 => monitor'.op = "tick" /\ AutoLaunched(monitor')
           /\ after = 0 /\ before > 0 /\ ~AutoLaunched(monitor')
                 => PatreonFeed \notin monitor'.active_dl_feeds]_vars

\* Two workers of the feed have failed one after the other: the pass that
\* finds the second one gone has counted it and taken the feed out of
\* active_dl_feeds.
C38_Witness ==
    /\ monitor.op = "tick"
    /\ "failed" \in monitor.branch
    /\ monitor.backoff_state.failure_count = 2
    /\ PatreonFeed \notin monitor.active_dl_feeds
    /\ ~AutoLaunched(monitor)

\* What a pass has decided: the workers it has launched, and the tracking
\* and backoff state it leaves.
Decisions(m) ==
    [launched |-> m.launched,
     active_dl_feeds |-> m.active_dl_feeds,
     active_tr_feeds_count |-> m.active_tr_feeds_count,
     active_en_feeds |-> m.active_en_feeds,
     backoff_state |-> m.backoff_state,
     progress_history |-> m.progress_history,
     stalled_feeds |-> m.stalled_feeds]

\* C39: from the same tracking and backoff state and with the same
\* observations (file counts, running processes, failure in the log,
\* liveness of the manual assistant, the commands that cannot be started,
\* the time), the pass of scripts/monitor/main.py and the pass of
\* scripts/monitor_progress.py launch the same workers and leave the same
\* tracking and backoff state.
C39_Claim_SameDecisions ==
    monitor.op # "init" =>
        \A x \in BackoffPopen, e \in BackoffElapsed :
            Decisions(MainLoop(monitor, x, e))
                = Decisions(OriginalMainLoop(monitor, x, e))

----------------------------------------------------------------------------
(* Manual mode while many download workers run.  get_worker_counts counts  *)
(* every line of ps aux with the name of a downloader, whoever started the *)
(* process: the workers of the feeds that are not followed here appear as  *)
(* downloaders of Feed A, which has no episode directory.                  *)

\* Download workers of other feeds are running.
downloaders_start(n) ==
    /\ monitor.op # "init"
    /\ monitor.procs[Kind(Downloader_py, "Feed A")] < n
    /\ monitor' = [monitor EXCEPT !.op = "start",
                                  !.procs[Kind(Downloader_py, "Feed A")] = n]
    /\ UNCHANGED <<store, transcription, directory, wrapper, shutdown>>

ManualPass == tick({}, SupervisorElapsed, TARGET_DOWNLOADERS + MaxProcs)

ManualNext ==
    \/ startup(BackoffRss)
    \/ \E c \in BackoffFiles : files_change(PatreonFeed, c)
    \/ ManualPass
    \/ downloaders_start(TARGET_DOWNLOADERS)
    \/ \E k \in BackoffExits : process_exit(k, TRUE)
    \/ /\ monitor.procs[Kind(Downloader_py, "Feed A")] = TARGET_DOWNLOADERS
       /\ process_exit(Kind(Downloader_py, "Feed A"), TRUE)

ManualSpec == Init /\ [][ManualNext]_vars

\* The loop of main() has come to rest: one more pass leaves every variable
\* of the monitor as it is.
ManualAtRest ==
    /\ monitor.op = "tick"
    /\ Rebase(MainLoop(monitor, {}, SupervisorElapsed)) = monitor

\* C25: once the manual download assistant has exited, the feed leaves
\* manual mode, whatever the number of download workers that run: the loop
\* does not come to rest with the feed in manual mode and the assistant
\* gone.
C25_Claim_ManualModeEnds ==
    /\ ManualAtRest
    /\ monitor.backoff_state.manual_pid # None
    /\ ~ManualAlive(monitor)
    => ~monitor.backoff_state.manual_mode

----------------------------------------------------------------------------
(* A small feed next to a feed with a large backlog: Feed A has 120        *)
(* episodes to transcribe, Feed B one or two of its 100; the transcribers   *)
(* end, by finishing their list or by an error, and the loop of main() runs *)
(* for ever.                                                                *)

StarveFiles ==
    [n \in {"Feed A", "Feed B"} |->
        IF n = "Feed A"
        THEN {Files(120, 0, 0)}
        ELSE {Files(100, 98, 98), Files(100, 99, 99)}]

StarvePass == tick({}, REFRESH_INTERVAL, TARGET_TRANSCRIBERS)

StarveNext ==
    \/ startup(FanOutRss)
    \/ \E n \in DOMAIN StarveFiles : \E c \in StarveFiles[n] : files_change(n, c)
    \/ StarvePass
    \/ \E n \in DOMAIN StarveFiles : process_exit(Kind(Transcriber_py, n), FALSE)

StarveSpec == Init /\ [][StarveNext]_vars

\* The loop of main() has come to rest: one more pass leaves every variable
\* of the monitor as it is.
StarveAtRest ==
    /\ monitor.op = "tick"
    /\ Rebase(MainLoop(monitor, {}, REFRESH_INTERVAL)) = monitor

\* The transcribers running
TranscribersRunning ==
    SumOver(monitor.procs, {k \in ProcKinds : k.cmd = Transcriber_py})

\* C21: when transcribe slots are free and Feed B has episodes to
\* transcribe and no transcriber, a transcriber is eventually launched for
\* Feed B, also while Feed A has 120 episodes to transcribe: the loop does
\* not come to rest with free slots and Feed B left without a worker.
C21_Claim_SmallFeedServed ==
    /\ StarveAtRest
    /\ TranscribersRunning < TARGET_TRANSCRIBERS
    /\ monitor.files["Feed B"].downloaded > monitor.files["Feed B"].txt
    => monitor.procs[Kind(Transcriber_py, "Feed B")] > 0

----------------------------------------------------------------------------
(* Workers that end before their stage is complete: Feed A has one or two  *)
(* of its three episodes and a transcript of one; its downloader and its    *)
(* transcriber end, and the loop of main() runs on.  The other feeds have   *)
(* nothing yet and their downloaders keep running.                          *)

RelaunchRss == [n \in FeedNames |-> IF n = "Feed A" THEN 3 ELSE 1]
RelaunchFiles == {Files(1, 0, 0), Files(2, 1, 1)}
RelaunchExits == {Kind(Downloader_py, "Feed A"), Kind(Transcriber_py, "Feed A")}

RelaunchNext ==
    \/ startup(RelaunchRss)
    \/ \E c \in RelaunchFiles : files_change("Feed A", c)
    \/ tick({}, REFRESH_INTERVAL, TARGET_DOWNLOADERS)
    \/ \E k \in RelaunchExits : process_exit(k, FALSE)

RelaunchSpec == Init /\ [][RelaunchNext]_vars

\* The loop of main() has come to rest: one more pass leaves every variable
\* of the monitor as it is.
RelaunchAtRest ==
    /\ monitor.op = "tick"
    /\ Rebase(MainLoop(monitor, {}, REFRESH_INTERVAL)) = monitor

\* C37: a feed whose worker has ended while its stage is incomplete is
\* given a new worker of that stage when slots are free: the loop does not
\* come to rest with download slots free and Feed A, which is tracked in
\* active_dl_feeds and not download-complete, left without a downloader,
\* nor with transcribe slots free and Feed A, which is counted in
\* active_tr_feeds_count and has episodes to transcribe, left without a
\* transcriber.
C37_Claim_DeadWorkerReplaced ==
    RelaunchAtRest =>
        /\ /\ monitor.seen.dl_workers < TARGET_DOWNLOADERS
           /\ "Feed A" \in monitor.active_dl_feeds
           /\ ~Entry("Feed A").is_dl_complete
           => monitor.procs[Kind(Downloader_py, "Feed A")] > 0
        /\ /\ monitor.seen.tr_workers < TARGET_TRANSCRIBERS
           /\ "Feed A" \in DOMAIN monitor.active_tr_feeds_count
           /\ Entry("Feed A").trans_remaining > 0
           => monitor.procs[Kind(Transcriber_py, "Feed A")] > 0

----------------------------------------------------------------------------
(* Transcription workers on one audio file.  Each worker is a process of   *)
(* podcast_transcriber.py that calls transcribe_audio on the file; a       *)
(* process that ends gives up its flock with its file descriptors.         *)

\* transcribe_audio up to the lock: the worker takes the lock and goes on
\* to transcribe, or returns "skipped".  aged: the lock file that exists
\* was last written more than four hours ago.
tr_acquire(w, aged) ==
    /\ transcription.pc[w] = "idle"
    /\ aged => transcription.path # NoFile
    /\ transcription' = acquire_file_lock(transcription, w, aged)
    /\ UNCHANGED <<store, monitor, directory, wrapper, shutdown>>

\* the try block runs to its end: the transcript is written, the lock
\* released, the path of the transcript returned
tr_success(w) ==
    /\ transcription.pc[w] = "transcribing"
    /\ transcription' = [release_file_lock(transcription, w) EXCEPT
                            !.pc[w] = "done", !.transcript = TRUE]
    /\ UNCHANGED <<store, monitor, directory, wrapper, shutdown>>

\* an Exception in the try block: the handler releases the lock and
\* returns None
tr_error(w) ==
    /\ transcription.pc[w] = "transcribing"
    /\ transcription' = [release_file_lock(transcription, w) EXCEPT !.pc[w] = "failed"]
    /\ UNCHANGED <<store, monitor, directory, wrapper, shutdown>>

\* KeyboardInterrupt, SystemExit or a signal in the try block: no handler
\* of transcribe_audio or of its callers catches it; the process ends and
\* its descriptors are closed.
tr_interrupt(w) ==
    /\ transcription.pc[w] = "transcribing"
    /\ transcription' = [transcription EXCEPT !.flock[w] = NoFile, !.pc[w] = "interrupted"]
    /\ UNCHANGED <<store, monitor, directory, wrapper, shutdown>>

\* the worker is started again on the file
tr_restart(w) ==
    /\ transcription.pc[w] \in {"done", "failed", "skipped", "interrupted"}
    /\ transcription' = [transcription EXCEPT !.pc[w] = "idle"]
    /\ UNCHANGED <<store, monitor, directory, wrapper, shutdown>>

TranscribeNext ==
    \/ \E w \in TrWorkers, aged \in BOOLEAN : tr_acquire(w, aged)
    \/ \E w \in TrWorkers : tr_success(w)
    \/ \E w \in TrWorkers : tr_error(w)
    \/ \E w \in TrWorkers : tr_interrupt(w)
    \/ \E w \in TrWorkers : tr_restart(w)

TranscribeSpec == Init /\ [][TranscribeNext]_vars

\* C30: a worker that leaves the transcription of the file, by success, by
\* an error or by interruption, holds no flock afterwards and the
\* .transcribing file it locked is removed.
C30_Claim_ReleasedOnEveryPath ==
    [][\A w \in TrWorkers :
        /\ transcription.pc[w] = "transcribing"
        /\ transcription'.pc[w] # "transcribing"
        => /\ transcription'.flock[w] = NoFile
           /\ transcription'.path # transcription.flock[w]]_vars

----------------------------------------------------------------------------
(* The file lock step by step: the system calls of acquire_file_lock and   *)
(* release_file_lock of two workers and of cleanup_stale_locks.py          *)
(* interleave.  No lock file is older than four hours.                      *)

\* The flock on the inode can be taken: no process holds it
Lockable(inode) == \A w \in TrWorkers : transcription.flock[w] # inode

\* An inode that no process has open
FreshInode ==
    CHOOSE i \in Inodes :
        /\ \A w \in TrWorkers : transcription.flock[w] # i /\ transcription.handle[w] # i
        /\ \A j \in Inodes :
              (\A w \in TrWorkers : transcription.flock[w] # j /\ transcription.handle[w] # j)
              => i <= j

\* acquire_file_lock: if lock_file.exists()
lock_exists(w) ==
    /\ transcription.pc[w] = "idle"
    /\ transcription' = [transcription EXCEPT
                            !.pc[w] = IF transcription.path # NoFile
                                      THEN "is_lock_stale" ELSE "open"]
    /\ UNCHANGED <<store, monitor, directory, wrapper, shutdown>>

\* is_lock_stale: the test flock is taken and given back at once; a file
\* that has gone in the meantime is not stale
lock_stale_check(w) ==
    /\ transcription.pc[w] = "is_lock_stale"
    /\ transcription' = [transcription EXCEPT
                            !.pc[w] = IF transcription.path # NoFile
                                         /\ Lockable(transcription.path)
                                      THEN "unlink" ELSE "open"]
    /\ UNCHANGED <<store, monitor, directory, wrapper, shutdown>>

\* lock_file.unlink() of the stale file: the name is removed, whatever
\* file it names by now
lock_stale_unlink(w) ==
    /\ transcription.pc[w] = "unlink"
    /\ transcription' = [transcription EXCEPT !.path = NoFile, !.pc[w] = "open"]
    /\ UNCHANGED <<store, monitor, directory, wrapper, shutdown>>

\* lock_handle = open(lock_file, 'w')
lock_open(w) ==
    /\ transcription.pc[w] = "open"
    /\ LET inode == IF transcription.path # NoFile THEN transcription.path
                    ELSE FreshInode
       IN  transcription' = [transcription EXCEPT
                                !.path = inode, !.handle[w] = inode, !.pc[w] = "flock"]
    /\ UNCHANGED <<store, monitor, directory, wrapper, shutdown>>

\* fcntl.flock(lock_handle, LOCK_EX | LOCK_NB): the handle is returned and
\* the worker transcribes, or None and the file is skipped
lock_flock(w) ==
    /\ transcription.pc[w] = "flock"
    /\ transcription' =
          IF Lockable(transcription.handle[w])
          THEN [transcription EXCEPT !.flock[w] = transcription.handle[w],
                                     !.handle[w] = NoFile,
                                     !.pc[w] = "transcribing"]
          ELSE [transcription EXCEPT !.handle[w] = NoFile, !.pc[w] = "skipped"]
    /\ UNCHANGED <<store, monitor, directory, wrapper, shutdown>>

\* release_file_lock: flock(LOCK_UN) and close
release_unlock(w) ==
    /\ transcription.pc[w] = "transcribing"
    /\ transcription' = [transcription EXCEPT !.flock[w] = NoFile, !.pc[w] = "release_unlink"]
    /\ UNCHANGED <<store, monitor, directory, wrapper, shutdown>>

\* release_file_lock: if lock_file.exists(): lock_file.unlink()
release_unlink(w) ==
    /\ transcription.pc[w] = "release_unlink"
    /\ transcription' = [transcription EXCEPT !.path = NoFile, !.pc[w] = "done"]
    /\ UNCHANGED <<store, monitor, directory, wrapper, shutdown>>

\* cleanup_stale_locks.py --delete: is_lock_active on the lock file found
cleanup_check ==
    /\ transcription.cleanup = "idle"
    /\ transcription.path # NoFile
    /\ transcription' = [transcription EXCEPT
                            !.cleanup = IF Lockable(transcription.path)
                                        THEN "stale" ELSE "idle"]
    /\ UNCHANGED <<store, monitor, directory, wrapper, shutdown>>

\* cleanup_stale_locks.py --delete: lock_file.unlink() of a stale lock
cleanup_unlink ==
    /\ transcription.cleanup = "stale"
    /\ transcription' = [transcription EXCEPT !.path = NoFile, !.cleanup = "idle"]
    /\ UNCHANGED <<store, monitor, directory, wrapper, shutdown>>

LockRaceNext ==
    \/ \E w \in TrWorkers : lock_exists(w)
    \/ \E w \in TrWorkers : lock_stale_check(w)
    \/ \E w \in TrWorkers : lock_stale_unlink(w)
    \/ \E w \in TrWorkers : lock_open(w)
    \/ \E w \in TrWorkers : lock_flock(w)
    \/ \E w \in TrWorkers : release_unlock(w)
    \/ \E w \in TrWorkers : release_unlink(w)
    \/ \E w \in TrWorkers : tr_interrupt(w)
    \/ \E w \in TrWorkers : tr_restart(w)
    \/ cleanup_check
    \/ cleanup_unlink

LockRaceSpec == Init /\ [][LockRaceNext]_vars

\* C36: at most one worker at a time has the lock of the audio file from
\* acquire_file_lock and is transcribing it.
C36_Claim_OneHolder ==
    Cardinality({w \in TrWorkers : transcription.pc[w] = "transcribing"}) <= 1

----------------------------------------------------------------------------
(* Two transcription workers launched on the same directory of two audio   *)
(* files.                                                                   *)

\* transcribe_directory is entered: the list of the files to transcribe
transcribe_directory(w) ==
    /\ directory.state[w] = "idle"
    /\ LET audio_files == Untranscribed(directory, 1) IN
       directory' = [directory EXCEPT
                        !.audio_files[w] = audio_files,
                        !.pos[w] = 1,
                        !.successful[w] = <<>>,
                        !.failed[w] = <<>>,
                        !.skipped[w] = <<>>,
                        !.state[w] = IF audio_files = <<>> THEN "finished" ELSE "looping"]
    /\ UNCHANGED <<store, monitor, transcription, wrapper, shutdown>>

\* transcribe_audio on the next file, up to the lock: the worker goes on to
\* transcribe it, or transcribe_audio returns "skipped"
dir_attempt(w, aged) ==
    /\ directory.state[w] = "looping"
    /\ directory.pos[w] <= Len(directory.audio_files[w])
    /\ LET f == directory.audio_files[w][directory.pos[w]]
           t == acquire_file_lock(directory.lock[f], w, aged)
           locked == [directory EXCEPT !.lock[f] = t]
       IN  /\ aged => directory.lock[f].path # NoFile
           /\ directory' = IF t.pc[w] = "skipped"
                           THEN Record(locked, w, f, "skipped")
                           ELSE [locked EXCEPT !.state[w] = "transcribing"]
    /\ UNCHANGED <<store, monitor, transcription, wrapper, shutdown>>

\* the transcript and the metadata are written, the lock is released
dir_success(w) ==
    /\ directory.state[w] = "transcribing"
    /\ LET f == directory.audio_files[w][directory.pos[w]]
           t == [release_file_lock(directory.lock[f], w) EXCEPT
                    !.pc[w] = "done", !.transcript = TRUE]
       IN  directory' = Record([directory EXCEPT !.lock[f] = t,
                                                 !.metadata = @ \cup {f}],
                               w, f, "done")
    /\ UNCHANGED <<store, monitor, transcription, wrapper, shutdown>>

\* an Exception while transcribing: the lock is released, None is returned
dir_error(w) ==
    /\ directory.state[w] = "transcribing"
    /\ LET f == directory.audio_files[w][directory.pos[w]]
           t == [release_file_lock(directory.lock[f], w) EXCEPT !.pc[w] = "failed"]
       IN  directory' = Record([directory EXCEPT !.lock[f] = t], w, f, "failed")
    /\ UNCHANGED <<store, monitor, transcription, wrapper, shutdown>>

\* the loop has ended, the summary is printed and the process ends
dir_finish(w) ==
    /\ directory.state[w] = "looping"
    /\ directory.pos[w] > Len(directory.audio_files[w])
    /\ directory' = [directory EXCEPT !.state[w] = "finished"]
    /\ UNCHANGED <<store, monitor, transcription, wrapper, shutdown>>

\* a worker is launched on the directory again
dir_restart(w) ==
    /\ directory.state[w] = "finished"
    /\ directory' = [directory EXCEPT !.state[w] = "idle"]
    /\ UNCHANGED <<store, monitor, transcription, wrapper, shutdown>>

DirectoryNext ==
    \/ \E w \in TrWorkers : transcribe_directory(w)
    \/ \E w \in TrWorkers, aged \in BOOLEAN : dir_attempt(w, aged)
    \/ \E w \in TrWorkers : dir_success(w)
    \/ \E w \in TrWorkers : dir_error(w)
    \/ \E w \in TrWorkers : dir_finish(w)
    \/ \E w \in TrWorkers : dir_restart(w)

DirectorySpec == Init /\ [][DirectoryNext]_vars

----------------------------------------------------------------------------
(* A function wrapped by retry() is called; every call of the function     *)
(* returns or raises one of the exceptions.                                 *)

MaxRetries == 2
RetryBaseDelays == {1, 10}
RetryMaxDelays == {15, 60}
RetryBases == {1, 2}
RetryExceptions ==
    {TRANSIENT_EXCEPTIONS, TRANSIENT_EXCEPTIONS \cup {"HTTPError"}, {"Exception"}}
Outcomes ==
    {NoException, ConnectionError_, ValueError_, HTTPError(503), HTTPError(404),
     HostUnreachable}

\* wrapper(*args, **kwargs) is entered
wrapper_call(max_retries, base_delay, max_delay, exponential_base, exceptions, has_on_retry) ==
    /\ wrapper.pc = "idle"
    /\ wrapper' = [WrapperInit EXCEPT
                     !.max_retries = max_retries, !.base_delay = base_delay,
                     !.max_delay = max_delay, !.exponential_base = exponential_base,
                     !.exceptions = exceptions, !.has_on_retry = has_on_retry,
                     !.pc = IF 0 < Attempts(max_retries) THEN "running" ELSE "raised",
                     !.raised = IF 0 < Attempts(max_retries) THEN NoException
                                ELSE NoExceptionYet]
    /\ UNCHANGED <<store, monitor, transcription, directory, shutdown>>

\* func is called and returns or raises
wrapper_attempt(outcome) ==
    /\ wrapper.pc = "running"
    /\ wrapper' = LoopBody(wrapper, outcome)
    /\ UNCHANGED <<store, monitor, transcription, directory, shutdown>>

\* the caller has the result; the function may be called again
wrapper_done ==
    /\ wrapper.pc \in {"returned", "raised"}
    /\ wrapper' = WrapperInit
    /\ UNCHANGED <<store, monitor, transcription, directory, shutdown>>

RetryNext ==
    \/ \E n \in 0..MaxRetries, b \in RetryBaseDelays, m \in RetryMaxDelays,
          x \in RetryBases, e \in RetryExceptions, c \in BOOLEAN :
          wrapper_call(n, b, m, x, e, c)
    \/ \E outcome \in Outcomes : wrapper_attempt(outcome)
    \/ wrapper_done

RetrySpec == Init /\ [][RetryNext]_vars

\* The exception is raised to the caller at once: its class is not one of
\* exceptions, or it has a response with a permanent status code
NotRetried(e) ==
    \/ ~IsInstance(e, wrapper.exceptions)
    \/ e.status_code \in PERMANENT_HTTP_CODES

\* C32: the function is called at most max_retries + 1 times; the wrapper
\* returns at the first call that returns; it raises the exception of the
\* last call, which is call max_retries + 1 unless that exception is not
\* retried; an exception with a permanent status code or of a class not in
\* exceptions is raised to the caller by the call that met it.
C32_AtMostNPlusOneCalls ==
    LET n == Len(wrapper.calls) IN
    /\ n <= wrapper.max_retries + 1
    /\ \A i \in 1..n :
          /\ wrapper.calls[i] = NoException => i = n /\ wrapper.pc = "returned"
          /\ wrapper.calls[i] # NoException /\ NotRetried(wrapper.calls[i])
             => i = n /\ wrapper.pc = "raised"
    /\ wrapper.pc = "returned" => n > 0 /\ wrapper.calls[n] = NoException
    /\ wrapper.pc = "raised" =>
          /\ n > 0
          /\ wrapper.raised = wrapper.calls[n]
          /\ wrapper.raised # NoException
          /\ ~NotRetried(wrapper.raised) => n = wrapper.max_retries + 1
    /\ wrapper.pc = "running" => n < wrapper.max_retries + 1

\* Every one of three calls has raised ConnectionError and the wrapper has
\* raised the last one
C32_Witness ==
    /\ wrapper.pc = "raised"
    /\ wrapper.max_retries = 2
    /\ wrapper.calls = <<ConnectionError_, ConnectionError_, ConnectionError_>>
    /\ wrapper.raised = ConnectionError_

\* C33: the k-th sleep lasts min(base_delay * exponential_base^(k-1),
\* max_delay); the delays do not exceed max_delay and do not decrease;
\* on_retry, if given, is called once per retry with the exception, k and
\* that delay; there is one sleep between two calls and none after the
\* last call.
C33_DelaySchedule ==
    LET n == Len(wrapper.calls)
        slept == wrapper.slept
    IN  /\ Len(slept) = IF wrapper.pc = "running" THEN n ELSE Max(n - 1, 0)
        /\ Len(slept) <= wrapper.max_retries
        /\ \A k \in 1..Len(slept) :
              LET full == wrapper.base_delay * Power(wrapper.exponential_base, k - 1) IN
              /\ slept[k] = IF full <= wrapper.max_delay THEN full ELSE wrapper.max_delay
              /\ slept[k] <= wrapper.max_delay
              /\ k > 1 => slept[k - 1] <= slept[k]
        /\ Len(wrapper.on_retry) = IF wrapper.has_on_retry THEN Len(slept) ELSE 0
        /\ \A k \in 1..Len(wrapper.on_retry) :
              wrapper.on_retry[k] = <<wrapper.calls[k], k, slept[k]>>

\* base_delay 10, max_delay 15: the delays 10 and 15 were slept and given to
\* on_retry, and the third call failed without a sleep after it
C33_Witness ==
    /\ wrapper.pc = "raised"
    /\ wrapper.slept = <<10, 15>>
    /\ Len(wrapper.calls) = 3
    /\ Len(wrapper.on_retry) = 2
    /\ wrapper.on_retry[2][3] = 15

----------------------------------------------------------------------------
(* A process that registers its workers and its cleanup callbacks with a   *)
(* GracefulShutdown and then calls shutdown().                              *)

MaxTimeout == 1
MaxCallbacks == 2

\* GracefulShutdown(timeout) and install_handlers()
install_handlers(timeout) ==
    /\ shutdown.pc = "new"
    /\ shutdown' = [shutdown EXCEPT !.pc = "ready", !.timeout = timeout,
                                    !.handlers_installed = TRUE]
    /\ UNCHANGED <<store, monitor, transcription, directory, wrapper>>

\* a worker is started and register_worker(pid) is called
register_worker(pid) ==
    /\ shutdown.pc = "ready"
    /\ shutdown.procs[pid] = "none"
    /\ pid \notin shutdown.worker_pids
    /\ shutdown' = [shutdown EXCEPT !.procs[pid] = "running",
                                    !.worker_pids = @ \cup {pid}]
    /\ UNCHANGED <<store, monitor, transcription, directory, wrapper>>

add_cleanup_callback(callback) ==
    /\ shutdown.pc = "ready"
    /\ Len(shutdown.cleanup_callbacks) < MaxCallbacks
    /\ shutdown' = [shutdown EXCEPT !.cleanup_callbacks = Append(@, callback)]
    /\ UNCHANGED <<store, monitor, transcription, directory, wrapper>>

\* a worker ends, by itself or on a signal
worker_exit(pid) ==
    /\ shutdown.procs[pid] = "running"
    /\ shutdown' = [shutdown EXCEPT !.procs[pid] = "zombie"]
    /\ UNCHANGED <<store, monitor, transcription, directory, wrapper>>

\* a worker that has ended is waited for (Popen.wait, Popen.poll)
worker_reaped(pid) ==
    /\ shutdown.pc = "ready"
    /\ shutdown.procs[pid] = "zombie"
    /\ shutdown' = [shutdown EXCEPT !.procs[pid] = "none"]
    /\ UNCHANGED <<store, monitor, transcription, directory, wrapper>>

\* shutdown() calls shutdown_workers(): no worker, return 0; else SIGTERM
\* to every worker
shutdown_workers_begin ==
    /\ shutdown.pc = "ready"
    /\ shutdown' =
          IF shutdown.worker_pids = {}
          THEN [shutdown EXCEPT !.pc = "run_cleanup", !.force_killed = 0,
                                !.steps = Append(@, "shutdown_workers")]
          ELSE [SendSigterm(shutdown) EXCEPT !.pc = "waiting"]
    /\ UNCHANGED <<store, monitor, transcription, directory, wrapper>>

\* one pass of the wait loop
shutdown_workers_wait ==
    /\ shutdown.pc = "waiting"
    /\ KeepWaiting(shutdown)
    /\ shutdown' = WaitPass(shutdown)
    /\ UNCHANGED <<store, monitor, transcription, directory, wrapper>>

\* the wait loop has ended: force kill, return force_killed
shutdown_workers_end ==
    /\ shutdown.pc = "waiting"
    /\ ~KeepWaiting(shutdown)
    /\ shutdown' = [ForceKill(shutdown) EXCEPT !.pc = "run_cleanup"]
    /\ UNCHANGED <<store, monitor, transcription, directory, wrapper>>

\* run_cleanup: the next callback is called
run_cleanup_callback(raises) ==
    /\ shutdown.pc = "run_cleanup"
    /\ shutdown.next_callback <= Len(shutdown.cleanup_callbacks)
    /\ shutdown' = Callback(shutdown, raises)
    /\ UNCHANGED <<store, monitor, transcription, directory, wrapper>>

\* run_cleanup returns
run_cleanup_end ==
    /\ shutdown.pc = "run_cleanup"
    /\ shutdown.next_callback > Len(shutdown.cleanup_callbacks)
    /\ shutdown' = [shutdown EXCEPT !.pc = "restore_handlers",
                                    !.steps = Append(@, "run_cleanup")]
    /\ UNCHANGED <<store, monitor, transcription, directory, wrapper>>

restore_handlers ==
    /\ shutdown.pc = "restore_handlers"
    /\ shutdown' = [shutdown EXCEPT !.pc = "done", !.handlers_installed = FALSE,
                                    !.steps = Append(@, "restore_handlers")]
    /\ UNCHANGED <<store, monitor, transcription, directory, wrapper>>

ShutdownNext ==
    \/ \E timeout \in 0..MaxTimeout : install_handlers(timeout)
    \/ \E pid \in Pids : register_worker(pid)
    \/ \E callback \in Callbacks : add_cleanup_callback(callback)
    \/ \E pid \in Pids : worker_exit(pid)
    \/ \E pid \in Pids : worker_reaped(pid)
    \/ shutdown_workers_begin
    \/ shutdown_workers_wait
    \/ shutdown_workers_end
    \/ \E raises \in BOOLEAN : run_cleanup_callback(raises)
    \/ run_cleanup_end
    \/ restore_handlers

ShutdownSpec == Init /\ [][ShutdownNext]_vars

\* q is a prefix of r
IsPrefix(q, r) == Len(q) <= Len(r) /\ \A i \in 1..Len(q) : q[i] = r[i]

\* C34: shutdown() ends its steps in the order shutdown_workers,
\* run_cleanup, restore_handlers; no callback is called before the workers
\* are stopped, the handlers are restored after the last callback;
\* run_cleanup calls every registered callback once, in the order of
\* registration, also after a callback that raised an Exception.
C34_ShutdownOrder ==
    /\ IsPrefix(shutdown.steps, <<"shutdown_workers", "run_cleanup", "restore_handlers">>)
    /\ IsPrefix(shutdown.called, shutdown.cleanup_callbacks)
    /\ shutdown.called # <<>> => Len(shutdown.steps) >= 1
    /\ Len(shutdown.steps) >= 2 => shutdown.called = shutdown.cleanup_callbacks
    /\ shutdown.handlers_installed = (shutdown.pc \notin {"new", "done"})
    /\ shutdown.pc = "done" =>
          shutdown.steps = <<"shutdown_workers", "run_cleanup", "restore_handlers">>

\* The first of two callbacks raised, both were called, and the handlers are
\* restored
C34_Witness ==
    /\ shutdown.pc = "done"
    /\ shutdown.cleanup_callbacks = <<"a", "b">>
    /\ shutdown.called = <<"a", "b">>
    /\ shutdown.failed = {1}
    /\ shutdown.sigterm # {}

\* C40: shutdown_workers returns after at most timeout seconds of sleeps
\* (the last sleep begins before the timeout), with worker_pids empty; every
\* registered worker that is a process was sent SIGTERM, every worker still
\* running when the wait ended was sent SIGKILL, and the return value is
\* the number of workers that were sent SIGKILL, 0 without workers.
C40_ShutdownWorkers ==
    /\ shutdown.waited <= SleepsPerSecond * shutdown.timeout
    /\ Len(shutdown.steps) >= 1 =>
          /\ shutdown.worker_pids = {}
          /\ shutdown.sigterm \subseteq shutdown.registered
          /\ \A pid \in shutdown.registered \ shutdown.sigterm :
                shutdown.procs[pid] = "none"
          /\ shutdown.alive_at_timeout \subseteq shutdown.sigkill
          /\ shutdown.sigkill \subseteq shutdown.sigterm
          /\ shutdown.force_killed = Cardinality(shutdown.sigkill)
          /\ shutdown.registered = {} => shutdown.force_killed = 0
          /\ \A pid \in Pids : shutdown.procs[pid] # "running"

\* One worker ended on SIGTERM and the other was killed after a timeout of
\* one second
C40_Witness ==
    /\ Len(shutdown.steps) >= 1
    /\ shutdown.timeout = 1
    /\ shutdown.waited = 2
    /\ Cardinality(shutdown.sigterm) = 2
    /\ shutdown.force_killed = 1
    /\ Cardinality(shutdown.alive_at_timeout) = 1

----------------------------------------------------------------------------
(* Crash and recovery.  A worker claims an item by its lock, runs its      *)
(* stage on it and releases the lock when the item is out of the           *)
(* in-progress status; any worker may be killed at any point.              *)

\* The download worker and the transcription worker
Downloader == "worker-1"
Transcriber == "worker-2"
CrashWorkers == {Downloader, Transcriber}

\* The call the worker of a stage makes for an item in this status
stage_step(w, id) ==
    \/ w = Downloader /\ episodes[id].status = PENDING /\ mark_downloading(id)
    \/ w = Downloader /\ episodes[id].status = DOWNLOADING
         /\ mark_downloaded(id, "/path/to/audio.mp3")
    \/ w = Transcriber /\ episodes[id].status = DOWNLOADED /\ mark_transcribing(id)
    \/ w = Transcriber /\ episodes[id].status = TRANSCRIBING
         /\ mark_transcribed(id, "/path/to/transcript.txt")

\* A lock is taken only while the clock can still advance past its stale
\* age, so that the bound on the clock keeps no lock fresh for ever.
CrashNext ==
    \/ \E p \in Podcasts : add_episode(p, "Ep1", NULL, NULL)
    \/ \E w \in CrashWorkers, e \in 1..Len(episodes) : acquire_lock_call(w, e)
    \/ \E w \in CrashWorkers : clock < MaxClock /\ acquire_lock_return(w)
    \/ \E w \in CrashWorkers, e \in 1..Len(episodes) :
          alive[w] /\ Holds(w, e) /\ stage_step(w, e)
    \/ \E w \in CrashWorkers, e \in 1..Len(episodes) :
          episodes[e].status \notin InProgress /\ release_lock(w, e)
    \/ \E w \in CrashWorkers : Kill(w)
    \/ cleanup_stale_locks(DefaultMaxAge)
    \/ reset_stuck_episodes
    \/ Tick

\* The episode is in progress and its lock is held by a killed worker.
Stuck(episode_id) ==
    /\ episode_id \in 1..Len(episodes)
    /\ episodes[episode_id].status \in InProgress
    /\ \E l \in locks : l.episode_id = episode_id /\ ~alive[l.worker_id]

\* The episode is in a stable status and has no lock row: the next
\* acquire_lock on it succeeds.
Claimable(episode_id) ==
    /\ episode_id \in 1..Len(episodes)
    /\ episodes[episode_id].status \notin InProgress
    /\ LockRows(locks, episode_id) = {}

\* The episode is in progress and no live worker holds its lock: the worker
\* that put it there was killed.
Orphaned(episode_id) ==
    /\ episode_id \in 1..Len(episodes)
    /\ episodes[episode_id].status \in InProgress
    /\ \A l \in LockRows(locks, episode_id) : ~alive[l.worker_id]

\* The recovery at process start: it is run when a crash has left an item
\* in progress.
Recover == (\E e \in EpisodeIds : Orphaned(e)) /\ reset_stuck_episodes

\* Time passes and every crash is followed by a recovery.  Nothing obliges
\* anybody to call reset_stuck_episodes or cleanup_stale_locks after that.
CrashSpec ==
    /\ Init
    /\ [][CrashNext]_vars
    /\ WF_vars(Tick)
    /\ WF_vars(Recover)

====
